---- MODULE Spec2Model ----
(***************************************************************************)
(* The wsnet listener of coder-cli (wsnet/listen.go): Listen and its       *)
(* reconnect supervisor, listener.dial and the accept loop it starts,      *)
(* listener.negotiate with closeError, and listener.Close.                 *)
(*                                                                         *)
(* Every goroutine is a process with a program counter.  The libraries     *)
(* (websocket, yamux, pion/webrtc) and the remote side are the             *)
(* environment: what they return is chosen nondeterministically.          *)
(***************************************************************************)
EXTENDS Integers, Sequences, FiniteSets, TLC

\* ------------------------------------------------------------------ bounds
MaxConns == 3          \* websockets dialed successfully in one run
MaxFailedDials == 2    \* dials the broker refuses in one run
MaxRemote == 4         \* substreams opened plus frames sent by the remote side in one run
MaxServers == 3        \* ICE servers in the servers list of one offer frame
MaxReads == 3          \* calls of rw.Read in the echo loop of the control channel
MaxBytes == 1          \* chunks a bridge copies in each direction on one application channel
MaxTicks == 4          \* ticks of the ticker in one run of workspaces ping
MaxFileLen == 4        \* symbols in the ssh config file
MaxEvents == 4         \* substreams and frames the remote side sends around a reconnect

\* ------------------------------------------------------------- error values
AcceptErrs == {"EOF", "KeepAliveTimeout", "AcceptOther"}
DialErrs == {"HTTPError", "NetError"}

\* errors.Is(err, context.Canceled)
IsCanceled(err) == err \in {"Canceled", "DialCanceled"}
\* errors.Is(err, context.DeadlineExceeded)
IsDeadlineExceeded(err) == err \in {"DeadlineExceeded", "DialDeadlineExceeded"}

\* ctx.Err()
CtxErr(c) == IF c = "canceled" THEN "Canceled"
             ELSE IF c = "deadline" THEN "DeadlineExceeded" ELSE "nil"

\* what websocket.Dial(ctx, ...) returns once ctx is done: ctx.Err() wrapped
DialCtxErr(c) == IF c = "canceled" THEN "DialCanceled" ELSE "DialDeadlineExceeded"

\* line 60: the accept errors after which the supervisor redials
RetryableOnlyEOF(err) == err = "EOF"
Retryable(err) == err \in {"EOF", "KeepAliveTimeout"}

\* line 72: the condition that breaks out of the retry loop
LeavesRetryOnDone(err) == err = "nil" \/ err \notin DialErrs
LeavesRetry(err) == err = "nil" \/ IsCanceled(err) \/ IsDeadlineExceeded(err)

\* line 64: a ticker made by time.NewTicker holds no tick until its
\* interval has passed
TickerStartFired == TRUE
TickerStart == FALSE

\* line 54: Listen hands out a listener (and starts the supervisor) only
\* when the first dial returned no error
ListenStartsAlways(err) == TRUE
ListenStarts(err) == err = "nil"

\* line 79: the value stored in l.acceptError
TerminalStore(err) == err

VARIABLES
    ctx,          \* the context given to Listen: "active", "canceled", "deadline"
    listenPc,     \* Listen: "start", "ok" (returned l, nil), "err" (returned nil, err)
    listenErr,    \* the error Listen returned
    conns,        \* every websocket.Conn dialed, in order; l.ws is an index
    ws,           \* l.ws (0 = nil)
    failedDials,  \* dials that returned no connection
    supPc,        \* supervisor goroutine: "none", "recv", "retry", "terminal", "closews", "done"
    supCh,        \* its variable ch: the session whose errCh it holds (0 = nil)
    supErr,       \* its variable err
    tickPending,  \* a tick is waiting in ticker.C
    ticks,        \* ticks delivered to the current ticker
    redials,      \* dials made under the current ticker
    acceptError,  \* l.acceptError
    supCause,     \* how the supervisor reached its terminal branch
    connClosers,  \* l.connClosers
    userPc,       \* a call of Close() by the owner: "idle", "closews", "returned"
    userRet,      \* what that call returned
    userSawStop,  \* the supervisor had stopped when that call was made
    remote,       \* substreams opened and frames sent by the remote side so far
    turnProxyAuthToken, \* l.turnProxyAuthToken
    handling,     \* one offer frame taken through lines 187-220, statement by statement
    expired,      \* the peers created longer ago than the negotiation timeout
    ctl,          \* the control channel of one peer and its echo loop (handle)
    chans,        \* the application channels of one peer and their handlers (handle)
    pinger,       \* one run of "workspaces ping": the loop of the command and its wsPinger
    ssh,          \* one run of "config-ssh --remove" and the ssh config file
    closer,       \* l.connClosersMut and the goroutines that lock it (Close, negotiate)
    upd,          \* one run of "coder update" and the files it touches
    streams,      \* one negotiate goroutine per accepted substream
    peers         \* every webrtc.PeerConnection created

vars == <<ctx, listenPc, listenErr, conns, ws, failedDials, supPc, supCh, supErr,
          tickPending, ticks, redials, acceptError, supCause, connClosers,
          userPc, userRet, userSawStop, remote, turnProxyAuthToken, handling,
          expired, ctl, chans, pinger, ssh, closer, upd, streams, peers>>

supVars == <<supPc, supCh, supErr, tickPending, ticks, redials, acceptError, supCause>>
userVars == <<userPc, userRet, userSawStop>>
listenVars == <<listenPc, listenErr>>
dialVars == <<conns, ws, failedDials>>
listenerVars == <<ctx, listenVars, dialVars, supVars, connClosers, userVars, remote,
                  streams, peers>>
offerVars == <<turnProxyAuthToken, handling, expired, ctl>>
appVars == <<chans, pinger, ssh, closer, upd>>
detailVars == <<offerVars, appVars>>

\* ------------------------------------------------------------------- frames
\* BrokerMessage as negotiate reads it: which fields are set
\* (turn: "" no TURNProxyURL, "url" one that url.Parse accepts, "bad" one it rejects)
Frame(c, o, sv, e, t) == [cand |-> c, offer |-> o, servers |-> sv, error |-> e, turn |-> t]
NoMsg == Frame(FALSE, FALSE, FALSE, FALSE, "")
Frames == { Frame(TRUE, FALSE, FALSE, FALSE, ""),     \* candidate
            Frame(FALSE, TRUE, TRUE, FALSE, ""),      \* offer with servers
            Frame(FALSE, TRUE, TRUE, FALSE, "url"),   \* offer, servers, turn proxy url
            Frame(FALSE, TRUE, TRUE, FALSE, "bad"),   \* offer, servers, unparsable url
            Frame(FALSE, TRUE, FALSE, FALSE, ""),     \* offer without servers
            Frame(TRUE, TRUE, TRUE, FALSE, ""),       \* candidate and offer in one frame
            Frame(FALSE, FALSE, FALSE, TRUE, "") }    \* error

\* ------------------------------------------- the offer frame in detail
\* the values of turnProxyAuthToken
Tokens == {"tokA", "tokB"}

\* the username that marks the server of the TURN proxy (line 193)
turnProxyMagicUsername == "magic"
Usernames == {turnProxyMagicUsername, "user"}

\* msg.Servers when it is not nil: the usernames of its servers, in order
ServerLists == UNION { [1..n -> Usernames] : n \in 0..MaxServers }

\* msg.TURNProxyURL: empty, a url with the token tokA or tokB in its query,
\* or a text that url.Parse rejects
TurnURLs == {"", "urlA", "urlB", "bad"}
QueryToken(u) == IF u = "urlA" THEN "tokA" ELSE IF u = "urlB" THEN "tokB" ELSE ""

\* the frames with an offer: nil says that msg.Servers is nil
OfferMsgs ==
    { m \in [nil : BOOLEAN, servers : ServerLists, turn : TurnURLs] :
          m.nil => m.servers = << >> }

\* line 206: url.Parse(msg.TURNProxyURL)
URLParse(u) == [err |-> u = "bad", url |-> u]

\* line 193: the servers that the loop passes without DialICE
SkipsProbeNever(username) == FALSE
SkipsProbe(username) == username = turnProxyMagicUsername

\* line 213: the token given to the turnProxyDialer
ProxyTokenFromFrame(m, tok) == QueryToken(m.turn)
ProxyToken(m, tok) == tok

NoProxy == [set |-> FALSE, baseURL |-> "", token |-> ""]
NoHandling ==
    [pc |-> "idle", msg |-> [nil |-> TRUE, servers |-> << >>, turn |-> ""], i |-> 0,
     dialed |-> << >>, turnProxy |-> NoProxy,
     rtc |-> [made |-> FALSE, servers |-> << >>, turnProxy |-> NoProxy],
     err |-> [kind |-> "none", server |-> 0], out |-> << >>]

\* --------------------------------------------------- the control channel
\* the bytes the remote side sends as pings
Bytes == {1, 2}

\* before dc.OnOpen fires: d is the buffer of line 284 (make gives a zero
\* byte), got the bytes Read has delivered, wrote the bytes Write has sent,
\* last the outcome of the latest Read
NoControl ==
    [pc |-> "unopened", open |-> FALSE, d |-> 0, got |-> << >>, wrote |-> << >>,
     reads |-> 0, last |-> "none"]

\* line 286: what rw.Read(d) can return on the one-byte buffer: a byte of the
\* remote side, no byte and no error (an empty message), an error (a message
\* longer than the buffer); once the remote side has closed or the peer is
\* gone, io.EOF or the error of a read from a closed channel
ReadOutcomes(open) ==
    IF open
    THEN {[n |-> 1, b |-> b, err |-> "nil"] : b \in Bytes}
         \cup {[n |-> 0, b |-> 0, err |-> "nil"], [n |-> 0, b |-> 0, err |-> "error"]}
    ELSE {[n |-> 0, b |-> 0, err |-> "EOF"], [n |-> 0, b |-> 0, err |-> "ErrClosed"]}

\* lines 287-293: EOF returns, another error continues, no error goes on
\* to rw.Write(d)
AfterReadEOFContinues(err) ==
    CASE err = "EOF" -> "read"
      [] err \in {"error", "ErrClosed"} -> "read"
      [] err = "nil" -> "write"
AfterRead(err) ==
    CASE err = "EOF" -> "returned"
      [] err \in {"error", "ErrClosed"} -> "read"
      [] err = "nil" -> "write"

\* ----------------------------------------------- the application channels
\* lines 23-27: the codes of DialChannelResponse
CodeDialErr == "dial_error"
CodePermissionErr == "permission_error"
CodeBadAddressErr == "bad_address_error"

\* the data channels the remote side opens on one peer
ChanIds == {"c1", "c2"}

\* dc.Protocol(): a label with a target that accepts or refuses, a label the
\* address policy of the offer denies, a label that does not parse
Labels == {"tcp:target", "tcp:denied", "garbage"}

\* line 323: msg.getAddress(label) gives the target or an error, which is a
\* notPermittedByPolicyErr when the policy denies the address
getAddress(label) ==
    CASE label = "garbage" -> [err |-> "parse"]
      [] label = "tcp:denied" -> [err |-> "notPermittedByPolicyErr"]
      [] OTHER -> [err |-> "nil"]

\* line 335: net.Dial gives a connection, a *net.OpError or another error
DialResults == {"nil", "OpError", "other"}

\* err.Error()
ErrorText(e) ==
    CASE e = "parse" -> "invalid address"
      [] e = "notPermittedByPolicyErr" -> "address not permitted"
      [] e = "OpError" -> "dial tcp: connection refused"
      [] e = "other" -> "dial failed"

\* line 305: var init DialChannelResponse
NoInit == [Code |-> "", Err |-> "", Net |-> "", Op |-> ""]

\* lines 325-330: bad_address_error unless errors.As finds the policy error
AddressCodeSwapped(e) ==
    IF e = "notPermittedByPolicyErr" THEN CodeBadAddressErr ELSE CodePermissionErr
AddressCode(e) ==
    IF e = "notPermittedByPolicyErr" THEN CodePermissionErr ELSE CodeBadAddressErr

\* lines 339-342: Net and Op are copied when err is a *net.OpError
OpErrorFieldsNever(e) == [Net |-> "", Op |-> ""]
OpErrorFields(e) ==
    IF e = "OpError" THEN [Net |-> "tcp", Op |-> "dial"] ELSE [Net |-> "", Op |-> ""]

\* lines 316-320: sendInitMessage closes the channel after an error response
ClosesAfterInitNever(init) == FALSE
ClosesAfterInit(init) == init.Err # ""

\* line 344: after net.Dial, on both outcomes, sendInitMessage() is called
AfterDialBridges == "bridge"
AfterDial == "send"

\* lines 345-347: the handler returns after an error response, else it bridges
AfterSend(init) == IF init.Err # "" THEN "returned" ELSE "bridge"

\* line 359: defer dc.Close() in the goroutine that copies from the target
DeferDcCloseNever == FALSE
DeferDcClose == TRUE

\* what is written on the channel: the response, then chunks from the target
InitFrame(init) == [kind |-> "init", init |-> init]
ByteFrame == [kind |-> "byte", init |-> NoInit]

\* a channel before OnOpen: nc is the dialed connection ("nil", "open",
\* "closed" by nc.Close()), aDone and bDone the ends of the two io.Copy calls
NoChannel ==
    [pc |-> "unopened", label |-> "", detached |-> FALSE, open |-> FALSE,
     remoteClosed |-> FALSE,
     dcClosed |-> FALSE, init |-> NoInit, initWrite |-> "none", dials |-> 0,
     dialErr |-> "none", nc |-> "nil", targetEnded |-> FALSE, out |-> << >>,
     fromTarget |-> 0, toTarget |-> 0, aDone |-> FALSE, bDone |-> FALSE]

\* dc, rw, init and nc are variables of the callback of one channel
ChSetAll(c, r) == [k \in ChanIds |-> r]
ChSet(c, r) == [chans EXCEPT ![c] = r]

\* ------------------------------------------------- workspaces ping
\* part_000 line 198: the values of --count tried (0: no limit)
Counts == 0..2

\* part_000 lines 226-279: where the branch that makes a dialer ends: an
\* error of ICEServers, of ice.ParseURL, no server left by the filter, an
\* error of WorkspaceByID, a workspace that is not on, an error of
\* DialWebsocket, an error of Candidates, or a dialer connected
DialPaths == {"iceErr", "parseErr", "noServers", "workspaceErr", "workspaceOff",
              "dialErr", "candidatesErr", "connected"}

\* part_000 line 313: the error of w.dialer.Ping(ctx)
PingResults == {"nil", "EOF", "ErrConnectionClosed", "other"}

\* part_000 lines 315 and 320: the errors after which the dialer is dropped
DeadPeerOnlyEOF(err) == err = "EOF"
DeadPeer(err) == err \in {"EOF", "ErrConnectionClosed"}

\* part_000 lines 171-178: the wsPinger (dialer 0 is nil, else the number of
\* the dialer made), seq, and what the model records of the run: the ticks,
\* the replies logged, the dialers Ping found dead, and of the latest call
\* of ping the branch taken, the dialer Ping was called on (0: not called),
\* the error of Ping and what ping returned
NoPinger ==
    [pc |-> "idle", count |-> 0, seq |-> 0, ticks |-> 0, replies |-> 0,
     dialer |-> 0, dials |-> 0, dead |-> {}, path |-> "none", used |-> 0,
     err |-> "none", ret |-> "none"]

\* part_000 lines 226-310: if the dialer is nil a new one is made
pingDial(w, path) ==
    CASE w.dialer # 0 -> [w EXCEPT !.path = "kept", !.ret = "go"]
      [] path \in {"iceErr", "workspaceOff", "dialErr"} ->
            [w EXCEPT !.path = path, !.ret = "nil"]
      [] path \in {"parseErr", "noServers", "workspaceErr"} ->
            [w EXCEPT !.path = path, !.ret = "fatal"]
      [] path = "candidatesErr" ->
            [w EXCEPT !.path = path, !.ret = "fatal", !.dials = @ + 1,
                      !.dialer = w.dials + 1]
      [] path = "connected" ->
            [w EXCEPT !.path = path, !.ret = "go", !.dials = @ + 1,
                      !.dialer = w.dials + 1]

\* part_000 lines 312-333: Ping on the dialer; a dead peer drops the dialer
pingPing(w, res) ==
    CASE res = "nil" ->
            [w EXCEPT !.used = w.dialer, !.err = res, !.ret = "nil", !.replies = @ + 1]
      [] res # "nil" /\ DeadPeer(res) ->
            [w EXCEPT !.used = w.dialer, !.err = res, !.ret = "nil", !.dialer = 0,
                      !.dead = @ \cup {w.dialer}]
      [] OTHER ->
            [w EXCEPT !.used = w.dialer, !.err = res, !.ret = "fatal"]

\* part_000 lines 219-334: wsPinger.ping
ping(w, path, res) ==
    LET d == pingDial([w EXCEPT !.used = 0, !.err = "none"], path)
    IN IF d.ret = "go" THEN pingPing(d, res) ELSE d

\* ------------------------------------------------- config-ssh --remove
\* part_001 lines 22 and 31: the ssh config file is a string of symbols:
\* "S" is sshStartToken and "E" is sshEndToken (each token one symbol, so
\* len(sshEndToken) is 1 here), "n" a newline, "a" any other character
Syms == {"S", "E", "n", "a"}
Files == UNION { [1..k -> Syms] : k \in 0..MaxFileLen }

\* strings.Index(config, token): the index from 0 of the first one, or -1
Index(config, token) ==
    IF \E i \in DOMAIN config : config[i] = token
    THEN (CHOOSE i \in DOMAIN config :
              config[i] = token /\ \A j \in 1..(i - 1) : config[j] # token) - 1
    ELSE -1

\* config[from:] and config[:to] of Go, indices from 0; an index outside
\* the string panics
SliceFrom(config, from) ==
    IF from < 0 \/ from > Len(config)
    THEN [panic |-> TRUE, str |-> << >>]
    ELSE [panic |-> FALSE, str |-> SubSeq(config, from + 1, Len(config))]
SliceTo(config, to) ==
    IF to < 0 \/ to > Len(config)
    THEN [panic |-> TRUE, str |-> << >>]
    ELSE [panic |-> FALSE, str |-> SubSeq(config, 1, to)]

\* part_001 lines 144-155
removeOldConfig(config) ==
    LET startIndex == Index(config, "S")
        endIndex == Index(config, "E")
        tail == SliceFrom(config, endIndex + 1 + 1)
        head == SliceTo(config, startIndex - 1)
    IN IF startIndex = -1 \/ endIndex = -1
       THEN [panic |-> FALSE, config |-> config, ok |-> FALSE]
       ELSE IF startIndex = 0
            THEN [panic |-> tail.panic, config |-> tail.str, ok |-> TRUE]
            ELSE [panic |-> head.panic \/ tail.panic, config |-> head.str \o tail.str,
                  ok |-> TRUE]

\* the goroutines that lock l.connClosersMut: Close() called by the owner and
\* by the supervisor (line 80), and two negotiations that register a peer
Closers == {"user", "sup"}
Negs == {"n1", "n2"}
PeerOf(n) == IF n = "n1" THEN 1 ELSE 2
NoCloser ==
    [mu |-> "free",
     pc |-> [t \in Closers \cup Negs |-> "idle"],
     i |-> [t \in Closers |-> 0],
     list |-> << >>,
     rtc |-> [p \in {1, 2} |-> "none"],
     cb |-> [p \in {1, 2} |-> "none"],
     conn |-> [p \in {1, 2} |-> TRUE]]

\* before any run of the updater: the executable holds the old binary and
\* there is no <executable>.new
NoArchive == [type |-> "none", opens |-> FALSE, names |-> {}, regular |-> FALSE, intact |-> FALSE]
NoUpdate ==
    [pc |-> "idle", force |-> FALSE, os |-> "linux", exe |-> "old", newFile |-> "absent",
     archive |-> NoArchive, binary |-> "none", ret |-> "none", err |-> "none"]

\* part_001 lines 193-204: the text makeSSHConfig gives for the environments
\* that have ssh enabled (one line of text and a newline for each)
HostConfigs == {<< >>, <<"a", "n">>, <<"a", "n", "a", "n">>}

\* a section written without the blank line before the start token
makeNewConfigsNoBlank(hosts) ==
    <<"S", "n", "a", "n", "n">> \o hosts \o <<"n", "E", "n">>

\* part_001 lines 175-191: "\n" start token "\n" message "\n\n", the host
\* configurations, "\n" end token "\n"
makeNewConfigs(hosts) ==
    <<"n", "S", "n", "a", "n", "n">> \o hosts \o <<"n", "E", "n">>

\* before the command runs: file is the content of the ssh config file,
\* orig its content when the command read it; runs counts the runs that
\* wrote a section, hosts is what they wrote for the environments and first
\* the file as the first of them left it
NoSSH == [pc |-> "idle", file |-> << >>, orig |-> << >>, ret |-> "none",
          runs |-> 0, hosts |-> << >>, first |-> << >>]

\* ------------------------------------------------------------------ helpers
Sessions == 1..Len(conns)
StreamIds == 1..Len(streams)
PeerIds == 1..Len(peers)

\* the yamux session over conns[k] still carries data
SessionAlive(k) == conns[k].open /\ conns[k].accept = "accept"

\* reads and writes on the substream of negotiation s still work
Usable(s) == streams[s].connOpen /\ SessionAlive(streams[s].sess)

InitListener ==
    /\ ctx = "active"
    /\ listenPc = "start"
    /\ listenErr = "nil"
    /\ conns = << >>
    /\ ws = 0
    /\ failedDials = 0
    /\ supPc = "none"
    /\ supCh = 0
    /\ supErr = "nil"
    /\ tickPending = FALSE
    /\ ticks = 0
    /\ redials = 0
    /\ acceptError = "nil"
    /\ supCause = "none"
    /\ connClosers = << >>
    /\ userPc = "idle"
    /\ userRet = "none"
    /\ userSawStop = FALSE
    /\ remote = 0
    /\ streams = << >>
    /\ peers = << >>
    /\ handling = NoHandling
    /\ expired = {}
    /\ ctl = NoControl
    /\ chans = [c \in ChanIds |-> NoChannel]
    /\ pinger = NoPinger
    /\ ssh = NoSSH
    /\ closer = NoCloser
    /\ upd = NoUpdate

\* the listener as Listen(ctx, broker, turnProxyAuthToken) builds it
Init == InitListener /\ turnProxyAuthToken = "tokA"

\* ------------------------------------------------------- peers being closed
\* rtc.Close() on every peer of S, called by who
ClosedPeers(ps, S, who) ==
    [p \in DOMAIN ps |->
        IF p \in S /\ ps[p].state # "closed"
        THEN [ps[p] EXCEPT !.state = "closed", !.closedBy = who]
        ELSE ps[p]]

\* lines 222-225: the OnConnectionStateChange callback closes the substream
\* unless the state the peer changed to is connecting
CallbackClosesOnFailure(pcs) == pcs \in {"failed", "closed"}
CallbackCloses(pcs) == pcs # "connecting"

\* lines 221-226: the OnConnectionStateChange callback of every peer of S
\* that changes state to closed closes the substream of its negotiation
CallbackStreams(st, ps, S) ==
    [s \in DOMAIN st |->
        IF /\ CallbackCloses("closed")
           /\ \E p \in S : ps[p].stream = s /\ ps[p].registered /\ ps[p].state # "closed"
        THEN [st[s] EXCEPT !.connOpen = FALSE]
        ELSE st[s]]

Range(seq) == { seq[i] : i \in DOMAIN seq }

\* lines 369-375: Close() locks connClosersMut and closes every registered peer
CloseLocked(who) ==
    /\ peers' = ClosedPeers(peers, Range(connClosers), who)
    /\ streams' = CallbackStreams(streams, peers, Range(connClosers))

\* a listener that leaves the stored websocket as it is
WsKept(cs, w) == cs

\* line 376 (and line 100): l.ws.Close(...)
WsClosed(cs, w) == IF w = 0 THEN cs ELSE [cs EXCEPT ![w].open = FALSE]

\* ------------------------------------------------------------ listener.dial
\* the results websocket.Dial and yamux.Server can have now
DialOutcomes ==
    IF ctx # "active" THEN {DialCtxErr(ctx)}
    ELSE (IF Len(conns) < MaxConns THEN {"nil"} ELSE {})
         \cup (IF failedDials < MaxFailedDials THEN DialErrs ELSE {})
         \cup (IF failedDials < MaxFailedDials /\ Len(conns) + 1 < MaxConns
               THEN {"MuxError"} ELSE {})

NewConn(acc) == [open |-> TRUE, accept |-> acc, err |-> "nil"]

\* lines 98-130: dial with result r; ch is the channel it returns (0 = nil)
Dial(r, ch) ==
    LET old == WsClosed(conns, ws) IN
    /\ r \in DialOutcomes
    /\ conns' = IF r = "nil" THEN Append(old, NewConn("accept"))
                ELSE IF r = "MuxError" THEN Append(old, NewConn("none"))
                ELSE old
    /\ ws' = IF r \in {"nil", "MuxError"} THEN Len(conns) + 1 ELSE ws
    /\ failedDials' = IF r \in DialErrs \cup {"MuxError"} THEN failedDials + 1 ELSE failedDials
    /\ ch = IF r = "nil" THEN Len(conns) + 1 ELSE 0

\* lines 118-128: session.Accept() returns an error: the transport is lost,
\* the websocket was closed, the context is done, or the keepalive timed out
AcceptFail(k, e) ==
    /\ k \in Sessions
    /\ conns[k].accept = "accept"
    /\ e \in AcceptErrs
    /\ conns' = [conns EXCEPT ![k].accept = "send", ![k].err = e]
    /\ UNCHANGED <<detailVars, ctx, listenVars, ws, failedDials, supVars, connClosers, userVars,
                   remote, streams, peers>>

NewStream(k) ==
    [sess |-> k, pc |-> "decode", rtc |-> 0, pending |-> << >>, msg |-> NoMsg,
     connOpen |-> TRUE, ncand |-> 0, noffer |-> 0, buffered |-> << >>,
     out |-> << >>, errWrite |-> "none", errPeer |-> 0,
     errState |-> "none", nerr |-> 0, i |-> 0]

\* lines 121-126: session.Accept() returns a substream; go l.negotiate(conn)
AcceptStream(k) ==
    /\ k \in Sessions
    /\ SessionAlive(k)
    /\ remote < MaxRemote
    /\ remote' = remote + 1
    /\ streams' = Append(streams, NewStream(k))
    /\ UNCHANGED <<detailVars, ctx, listenVars, dialVars, supVars, connClosers, userVars, peers>>

\* ------------------------------------------------------------------- Listen
\* lines 44-56 and 85: the first dial, and what Listen returns
ListenDial ==
    /\ listenPc = "start"
    /\ \E r \in DialOutcomes, ch \in 0..MaxConns :
        /\ Dial(r, ch)
        /\ listenErr' = r
        /\ IF ListenStarts(r)
           THEN listenPc' = "ok" /\ supPc' = "recv" /\ supCh' = ch
           ELSE listenPc' = "err" /\ supPc' = "none" /\ supCh' = supCh
    /\ UNCHANGED <<detailVars, ctx, supErr, tickPending, ticks, redials, acceptError, supCause,
                   connClosers, userVars, remote, streams, peers>>

\* a supervisor that stops after any dial that ends the retry loop
AfterRetryStops(err) ==
    IF ~LeavesRetry(err) THEN "retry" ELSE "terminal"

\* where the supervisor goes when the retry loop has set err (lines 72-82)
AfterRetry(err) ==
    IF ~LeavesRetry(err) THEN "retry"
    ELSE IF err = "nil" THEN "recv" ELSE "terminal"

\* lines 59-64 and 78: err := <-ch
SupRecv ==
    /\ supPc = "recv"
    /\ supCh # 0
    /\ conns[supCh].accept = "send"
    /\ conns' = [conns EXCEPT ![supCh].accept = "done", ![supCh].err = "nil"]
    /\ supErr' = conns[supCh].err
    /\ IF Retryable(conns[supCh].err)
       THEN supPc' = "retry" /\ supCause' = supCause
       ELSE supPc' = "terminal" /\ supCause' = "accept"
    /\ tickPending' = TickerStart
    /\ ticks' = 0
    /\ redials' = 0
    /\ UNCHANGED <<detailVars, ctx, listenVars, ws, failedDials, supCh, acceptError, connClosers,
                   userVars, remote, streams, peers>>

\* line 64: the ticker puts a tick in ticker.C (capacity 1) every interval
Tick ==
    /\ supPc = "retry"
    /\ ~tickPending
    /\ tickPending' = TRUE
    /\ ticks' = ticks + 1
    /\ UNCHANGED <<detailVars, ctx, listenVars, dialVars, supPc, supCh, supErr, redials, acceptError,
                   supCause, connClosers, userVars, remote, streams, peers>>

\* lines 67-68 and 72-77: case <-ticker.C: ch, err = l.dial(ctx)
SupRedial ==
    /\ supPc = "retry"
    /\ tickPending
    /\ \E r \in DialOutcomes, ch \in 0..MaxConns :
        /\ Dial(r, ch)
        /\ supCh' = ch
        /\ supErr' = r
        /\ supPc' = AfterRetry(r)
        /\ supCause' = IF AfterRetry(r) = "terminal" THEN "redial" ELSE supCause
    /\ tickPending' = FALSE
    /\ redials' = redials + 1
    /\ UNCHANGED <<detailVars, ctx, listenVars, ticks, acceptError, connClosers, userVars,
                   remote, streams, peers>>

\* lines 69-70 and 72-77: case <-ctx.Done(): err = ctx.Err()
SupCtxDone ==
    /\ supPc = "retry"
    /\ ctx # "active"
    /\ supErr' = CtxErr(ctx)
    /\ supPc' = AfterRetry(CtxErr(ctx))
    /\ supCause' = IF AfterRetry(CtxErr(ctx)) = "terminal" THEN "ctx" ELSE supCause
    /\ UNCHANGED <<detailVars, ctx, listenVars, dialVars, supCh, tickPending, ticks, redials,
                   acceptError, connClosers, userVars, remote, streams, peers>>

\* lines 78-80: l.acceptError = err, then Close() up to its unlock
SupTerminal ==
    /\ supPc = "terminal"
    /\ acceptError' = TerminalStore(supErr)
    /\ CloseLocked("supervisor")
    /\ supPc' = "closews"
    /\ UNCHANGED <<detailVars, ctx, listenVars, dialVars, supCh, supErr, tickPending, ticks, redials,
                   supCause, connClosers, userVars, remote>>

\* line 80-81: Close() closes the websocket; its result is dropped; break
SupCloseWs ==
    /\ supPc = "closews"
    /\ conns' = WsClosed(conns, ws)
    /\ supPc' = "done"
    /\ UNCHANGED <<detailVars, ctx, listenVars, ws, failedDials, supCh, supErr, tickPending, ticks,
                   redials, acceptError, supCause, connClosers, userVars, remote, streams, peers>>

\* ------------------------------------------------------------ listener.Close
\* lines 368-375: the owner of the listener calls Close()
UserClose ==
    /\ listenPc = "ok"
    /\ userPc \in {"idle", "returned"}
    /\ CloseLocked("close")
    /\ userPc' = "closews"
    /\ userRet' = "none"
    /\ userSawStop' = (supPc = "done")
    /\ UNCHANGED <<detailVars, ctx, listenVars, dialVars, supVars, connClosers, remote>>

\* line 376: return l.ws.Close(websocket.StatusNormalClosure, "")
UserCloseWs ==
    /\ userPc = "closews"
    /\ \E ret \in {"nil", "WsCloseError"} : userRet' = ret
    /\ conns' = WsClosed(conns, ws)
    /\ userPc' = "returned"
    /\ UNCHANGED <<detailVars, ctx, listenVars, ws, failedDials, supVars, connClosers,
                   userSawStop, remote, streams, peers>>

\* the context given to Listen is cancelled, or its deadline passes
CtxCancel ==
    /\ ctx = "active"
    /\ ctx' = "canceled"
    /\ UNCHANGED <<detailVars, listenVars, dialVars, supVars, connClosers, userVars, remote, streams, peers>>

CtxDeadline ==
    /\ ctx = "active"
    /\ ctx' = "deadline"
    /\ UNCHANGED <<detailVars, listenVars, dialVars, supVars, connClosers, userVars, remote, streams, peers>>

\* ------------------------------------------------------- listener.negotiate
NewPeer(s) ==
    [state |-> "new", stream |-> s, registered |-> FALSE, remoteSet |-> FALSE,
     localSet |-> FALSE, answered |-> FALSE, applied |-> << >>, reached |-> FALSE,
     closedBy |-> "none"]

\* lines 148-152: closeError marshals and writes the error frame, then
\* closes the substream
ErrorWrittenEverywhere(st, s, e) ==
    [k \in DOMAIN st |->
        [st[k] EXCEPT !.pc = IF k = s THEN "done" ELSE @,
                      !.msg = IF k = s THEN NoMsg ELSE @,
                      !.pending = IF k = s THEN << >> ELSE @,
                      !.i = IF k = s THEN 0 ELSE @,
                      !.out = IF Usable(k) THEN Append(@, "error") ELSE @,
                      !.errWrite = IF Usable(k) THEN "sent" ELSE "failed",
                      !.connOpen = FALSE]]
ErrorWritten(st, s, e) ==
    [st EXCEPT ![s].pc = "done", ![s].msg = NoMsg, ![s].pending = << >>, ![s].i = 0,
               ![s].out = IF Usable(s) THEN Append(@, "error") ELSE @,
               ![s].errWrite = IF Usable(s) THEN "sent" ELSE "failed",
               ![s].connOpen = FALSE]

\* line 154: the test closeError makes before it closes the peer
ClosesPeerUnlessReached(p) == ~p.reached
ClosesPeer(p) == p.state # "connected"

\* a closeError that closes no peer
ErrorPeersSpared(ps, r) == ps

\* lines 153-158: closeError closes the peer r that rtc names (0 = nil)
ErrorPeers(ps, r) ==
    IF r # 0 /\ ClosesPeer(ps[r]) THEN ClosedPeers(ps, {r}, "closeError") ELSE ps

\* lines 147-159: closeError(e) called with rtc = r; st and ps are the
\* substreams and peers as the failing step left them
closeError(st, ps, s, r, e) ==
    /\ streams' = [ErrorWritten(st, s, e) EXCEPT
                     ![s].rtc = IF r # 0 /\ ClosesPeer(ps[r]) THEN 0 ELSE r,
                     ![s].errPeer = r,
                     ![s].errState = IF r # 0 THEN ps[r].state ELSE "none"]
    /\ peers' = ErrorPeers(ps, r)

\* lines 175-177: a candidate that arrives while rtc is nil
BufferDrops(pending, c) == pending
Buffer(pending, c) == Append(pending, c)

\* lines 170-185: what the loop does with the candidate field of a frame
CandidateStep(msg, r) ==
    IF ~msg.cand THEN "skip" ELSE IF r = 0 THEN "buffer" ELSE "apply"

\* lines 187-191: what the loop does with the offer field of a frame
OfferStepUnguarded(msg) ==
    IF msg.servers \/ ~msg.offer THEN "probe" ELSE "noservers"
OfferStepServersFirst(msg) ==
    IF ~msg.servers THEN "noservers" ELSE IF ~msg.offer THEN "none" ELSE "probe"
OfferStep(msg) ==
    IF ~msg.offer THEN "none" ELSE IF ~msg.servers THEN "noservers" ELSE "probe"

\* lines 232-270: the order of the steps that handle an offer once its peer
\* is registered: SetRemoteDescription, CreateAnswer and SetLocalDescription,
\* the write of the answer frame, the loop over pendingCandidates, and back
\* to decoder.Decode
OfferOrderFlushFirst(pc) ==
    CASE pc = "setRemote" -> "answer"
      [] pc = "answer" -> "flush"
      [] pc = "flush" -> "write"
      [] pc = "write" -> "decode"
OfferOrder(pc) ==
    CASE pc = "setRemote" -> "answer"
      [] pc = "answer" -> "write"
      [] pc = "write" -> "flush"
      [] pc = "flush" -> "decode"

\* rtc.AddICECandidate can succeed only on an open peer that has a remote
\* description
CanAdd(p) == p.state # "closed" /\ p.remoteSet

NegUnchanged == UNCHANGED <<detailVars, ctx, listenVars, dialVars, supVars, connClosers, userVars>>
NegStep == NegUnchanged /\ UNCHANGED remote

\* lines 163-168: decoder.Decode fails: the substream was closed or lost,
\* or the remote sent something that is not a frame
DecodeFail(s) ==
    /\ s \in StreamIds
    /\ streams[s].pc = "decode"
    /\ closeError(streams, peers, s, streams[s].rtc, "decode")
    /\ NegStep

\* the offer field of frame f, once its candidate field is dealt with
OfferPart(st, ps, s, f) ==
    CASE OfferStep(f) = "none" -> streams' = st /\ peers' = ps
      [] OfferStep(f) = "noservers" -> closeError(st, ps, s, st[s].rtc, "servers")
      [] OfferStep(f) = "probe" ->
            /\ streams' = [st EXCEPT ![s].pc = "probe", ![s].msg = f]
            /\ peers' = ps

\* lines 163-191: a frame is decoded
RecvFrame(s, f) ==
    /\ s \in StreamIds
    /\ f \in Frames
    /\ streams[s].pc = "decode"
    /\ Usable(s)
    /\ remote < MaxRemote
    /\ remote' = remote + 1
    /\ LET r == streams[s].rtc
           c == streams[s].ncand + 1
           got == [streams EXCEPT ![s].ncand = IF f.cand THEN c ELSE @,
                                  ![s].noffer = IF f.offer THEN @ + 1 ELSE @,
                                  ![s].nerr = IF f.error THEN @ + 1 ELSE @]
       IN CASE CandidateStep(f, r) = "skip" -> OfferPart(got, peers, s, f)
            [] CandidateStep(f, r) = "buffer" ->
                  /\ streams' = [got EXCEPT ![s].pending = Buffer(@, c),
                                            ![s].buffered = Append(@, c)]
                  /\ peers' = peers
            [] CandidateStep(f, r) = "apply" ->
                  \/ /\ CanAdd(peers[r])
                     /\ OfferPart(got, [peers EXCEPT ![r].applied = Append(@, c)], s, f)
                  \/ closeError(got, peers, s, r, "candidate")
    /\ NegUnchanged

\* lines 192-220: DialICE on the servers, url.Parse, newPeerConnection
CreatePeer(s) ==
    /\ s \in StreamIds
    /\ streams[s].pc = "probe"
    /\ LET r == streams[s].rtc
           m == streams[s].msg
       IN \/ closeError(streams, peers, s, r, "probe")
          \/ /\ m.turn = "bad"
             /\ closeError(streams, peers, s, r, "turn")
          \/ /\ m.turn # "bad"
             /\ closeError(streams, peers, s, 0, "newpeer")
          \/ /\ m.turn # "bad"
             /\ peers' = Append(peers, NewPeer(s))
             /\ streams' = [streams EXCEPT ![s].pc = "register",
                                           ![s].rtc = Len(peers) + 1]
    /\ NegStep

\* lines 221-231: the callbacks are registered and the peer is appended to
\* l.connClosers under connClosersMut
Register(s) ==
    /\ s \in StreamIds
    /\ streams[s].pc = "register"
    /\ peers' = [peers EXCEPT ![streams[s].rtc].registered = TRUE]
    /\ connClosers' = Append(connClosers, streams[s].rtc)
    /\ streams' = [streams EXCEPT ![s].pc = "setRemote"]
    /\ UNCHANGED <<detailVars, ctx, listenVars, dialVars, supVars, userVars, remote>>

\* lines 232-236: rtc.SetRemoteDescription(*msg.Offer)
SetRemote(s) ==
    /\ s \in StreamIds
    /\ streams[s].pc = "setRemote"
    /\ LET r == streams[s].rtc
       IN \/ /\ peers[r].state # "closed"
             /\ peers' = [peers EXCEPT ![r].remoteSet = TRUE]
             /\ streams' = [streams EXCEPT ![s].pc = OfferOrder("setRemote")]
          \/ closeError(streams, peers, s, r, "offer")
    /\ NegStep

\* lines 237-247: CreateAnswer, SetLocalDescription, flushCandidates
Answer(s) ==
    /\ s \in StreamIds
    /\ streams[s].pc = "answer"
    /\ LET r == streams[s].rtc
       IN \/ /\ peers[r].state # "closed"
             /\ peers' = [peers EXCEPT ![r].localSet = TRUE]
             /\ streams' = [streams EXCEPT ![s].pc = OfferOrder("answer"), ![s].i = 0]
          \/ closeError(streams, peers, s, r, "answer")
    /\ NegStep

\* lines 249-260: the answer frame is marshalled and written
WriteAnswer(s) ==
    /\ s \in StreamIds
    /\ streams[s].pc = "write"
    /\ LET r == streams[s].rtc
       IN IF Usable(s)
          THEN /\ streams' = [streams EXCEPT ![s].pc = OfferOrder("write"), ![s].i = 0,
                                             ![s].out = Append(@, "answer")]
               /\ peers' = [peers EXCEPT ![r].answered = TRUE]
          ELSE closeError(streams, peers, s, r, "write")
    /\ NegStep

\* lines 262-269: one turn of the loop over pendingCandidates, or its end
FlushPending(s) ==
    /\ s \in StreamIds
    /\ streams[s].pc = "flush"
    /\ LET r == streams[s].rtc
           i == streams[s].i + 1
       IN IF i > Len(streams[s].pending)
          THEN /\ streams' = [streams EXCEPT ![s].pc = OfferOrder("flush"), ![s].i = 0,
                                             ![s].pending = << >>, ![s].msg = NoMsg]
               /\ peers' = peers
          ELSE \/ /\ CanAdd(peers[r])
                  /\ peers' = [peers EXCEPT ![r].applied = Append(@, streams[s].pending[i])]
                  /\ streams' = [streams EXCEPT ![s].i = i]
               \/ closeError(streams, peers, s, r, "pending")
    /\ NegStep

\* --------------------------------------------------- the peer's ICE agent
\* the connection states a peer can move to by itself
PeerMoves(p) ==
    CASE p.state = "new" -> IF p.localSet THEN {"connecting"} ELSE {}
      [] p.state = "connecting" -> (IF p.answered THEN {"connected"} ELSE {}) \cup {"failed"}
      [] p.state = "connected" -> {"disconnected"}
      [] p.state = "disconnected" -> {"connected", "failed"}
      [] OTHER -> {}

\* the peer changes state and its callback runs (lines 221-226)
PeerChange(p, to) ==
    /\ p \in PeerIds
    /\ to \in PeerMoves(peers[p])
    /\ peers' = [peers EXCEPT ![p].state = to,
                              ![p].reached = @ \/ to = "connected"]
    /\ streams' = IF CallbackCloses(to) /\ peers[p].registered
                  THEN [streams EXCEPT ![peers[p].stream].connOpen = FALSE]
                  ELSE streams
    /\ NegStep

\* the negotiation timeout passes for peer p, which has not been connected:
\* negotiate (lines 162-271) waits in decoder.Decode and in the calls of the
\* peer only, and no timer runs beside it
TimeoutPasses(p) ==
    /\ p \in PeerIds
    /\ p \notin expired
    /\ ~peers[p].reached
    /\ expired' = expired \cup {p}
    /\ UNCHANGED <<listenerVars, appVars, turnProxyAuthToken, handling, ctl>>

\* ------------------------------- lines 187-220, statement by statement
\* closeError(err) while rtc is nil: the error frame is written and the
\* substream closed (lines 148-152)
HandlingError(kind, server) ==
    [handling EXCEPT !.pc = "error", !.err = [kind |-> kind, server |-> server],
                     !.out = Append(@, "error")]

\* line 187: a frame with msg.Offer != nil is decoded on a substream
HandleOffer(m) ==
    /\ handling.pc = "idle"
    /\ m \in OfferMsgs
    /\ handling' = [handling EXCEPT !.pc = "servers", !.msg = m]
    /\ UNCHANGED <<listenerVars, appVars, turnProxyAuthToken, expired, ctl>>

\* lines 188-191: msg.Servers == nil
CheckServers ==
    /\ handling.pc = "servers"
    /\ handling' = IF handling.msg.nil
                   THEN HandlingError("servers", 0)
                   ELSE [handling EXCEPT !.pc = "range", !.i = 1]
    /\ UNCHANGED <<listenerVars, appVars, turnProxyAuthToken, expired, ctl>>

\* lines 192-203: one turn of the loop over msg.Servers, or its end
RangeServers ==
    /\ handling.pc = "range"
    /\ LET i == handling.i
           l == handling.msg.servers
       IN IF i > Len(l)
          THEN handling' = [handling EXCEPT !.pc = "turn"]
          ELSE IF SkipsProbe(l[i])
          THEN handling' = [handling EXCEPT !.i = i + 1]
          ELSE \E ok \in BOOLEAN :
                  LET h == [handling EXCEPT !.dialed = Append(@, [server |-> i, ok |-> ok])]
                  IN handling' = IF ok THEN [h EXCEPT !.i = i + 1]
                                 ELSE [h EXCEPT !.pc = "error",
                                                !.err = [kind |-> "dial", server |-> i],
                                                !.out = Append(@, "error")]
    /\ UNCHANGED <<listenerVars, appVars, turnProxyAuthToken, expired, ctl>>

\* lines 204-215: the turnProxyDialer
TurnProxy ==
    /\ handling.pc = "turn"
    /\ LET m == handling.msg
           u == URLParse(m.turn)
       IN handling' =
            IF m.turn = "" THEN [handling EXCEPT !.pc = "newpeer"]
            ELSE IF u.err THEN HandlingError("parse", 0)
            ELSE [handling EXCEPT
                    !.pc = "newpeer",
                    !.turnProxy = [set |-> TRUE, baseURL |-> u.url,
                                   token |-> ProxyToken(m, turnProxyAuthToken)]]
    /\ UNCHANGED <<listenerVars, appVars, turnProxyAuthToken, expired, ctl>>

\* lines 216-220: newPeerConnection(msg.Servers, turnProxy)
NewPeerConnection ==
    /\ handling.pc = "newpeer"
    /\ \/ handling' = [handling EXCEPT
                          !.pc = "made",
                          !.rtc = [made |-> TRUE, servers |-> handling.msg.servers,
                                   turnProxy |-> handling.turnProxy]]
       \/ handling' = HandlingError("newpeer", 0)
    /\ UNCHANGED <<listenerVars, appVars, turnProxyAuthToken, expired, ctl>>

\* ------------------------------- lines 276-297, the control channel
\* line 278: the control channel opens and the OnOpen callback starts
CtlOnOpen ==
    /\ ctl.pc = "unopened"
    /\ ctl' = [ctl EXCEPT !.pc = "detach", !.open = TRUE]
    /\ UNCHANGED <<listenerVars, appVars, turnProxyAuthToken, handling, expired>>

\* lines 279-284: dc.Detach(); the callback returns on its error
CtlDetach ==
    /\ ctl.pc = "detach"
    /\ \E ok \in BOOLEAN :
          ctl' = [ctl EXCEPT !.pc = IF ok THEN "read" ELSE "returned"]
    /\ UNCHANGED <<listenerVars, appVars, turnProxyAuthToken, handling, expired>>

\* lines 286-292: _, err = rw.Read(d); the count of bytes is dropped
CtlRead ==
    /\ ctl.pc = "read"
    /\ ctl.reads < MaxReads
    /\ \E r \in ReadOutcomes(ctl.open) :
          ctl' = [ctl EXCEPT !.pc = AfterRead(r.err),
                             !.reads = @ + 1,
                             !.d = IF r.n = 1 THEN r.b ELSE @,
                             !.got = IF r.n = 1 THEN Append(@, r.b) ELSE @,
                             !.last = IF r.err = "nil" /\ r.n = 0 THEN "empty" ELSE r.err]
    /\ UNCHANGED <<listenerVars, appVars, turnProxyAuthToken, handling, expired>>

\* line 293: _, _ = rw.Write(d); the write fails on a closed channel and
\* its error is dropped
CtlWrite ==
    /\ ctl.pc = "write"
    /\ ctl' = [ctl EXCEPT !.pc = "read",
                          !.wrote = IF ctl.open THEN Append(@, ctl.d) ELSE @]
    /\ UNCHANGED <<listenerVars, appVars, turnProxyAuthToken, handling, expired>>

\* the remote side closes the control channel
CtlRemoteClose ==
    /\ ctl.open
    /\ ctl' = [ctl EXCEPT !.open = FALSE]
    /\ UNCHANGED <<listenerVars, appVars, turnProxyAuthToken, handling, expired>>

\* ------------------------------- lines 299-363, an application channel
ChUnchanged == UNCHANGED <<listenerVars, offerVars, pinger, ssh, closer, upd>>

\* line 299: the channel with this label opens and the OnOpen callback starts
ChOnOpen(c, label) ==
    /\ chans[c].pc = "unopened"
    /\ chans' = ChSet(c, [chans[c] EXCEPT !.pc = "detach", !.label = label,
                                          !.open = TRUE])
    /\ ChUnchanged

\* lines 300-303: dc.Detach(); the callback returns on its error
ChDetach(c) ==
    /\ chans[c].pc = "detach"
    /\ \E ok \in BOOLEAN :
          chans' = ChSet(c, [chans[c] EXCEPT !.pc = IF ok THEN "address" ELSE "returned",
                                              !.detached = ok])
    /\ ChUnchanged

\* lines 323-330: getAddress; on its error init gets the code and the text
ChGetAddress(c) ==
    /\ chans[c].pc = "address"
    /\ LET e == getAddress(chans[c].label).err
       IN chans' = ChSet(c,
            IF e = "nil"
            THEN [chans[c] EXCEPT !.pc = "dial"]
            ELSE [chans[c] EXCEPT !.pc = "senderr",
                                  !.init = [Code |-> AddressCode(e), Err |-> ErrorText(e),
                                            Net |-> "", Op |-> ""]])
    /\ ChUnchanged

\* lines 335-343: net.Dial; on its error init gets dial_error, the text and,
\* from a *net.OpError, Net and Op
ChDial(c) ==
    /\ chans[c].pc = "dial"
    /\ \E e \in DialResults :
          chans' = ChSet(c,
            IF e = "nil"
            THEN [chans[c] EXCEPT !.pc = AfterDial, !.dials = @ + 1, !.dialErr = e,
                                  !.nc = "open"]
            ELSE [chans[c] EXCEPT !.pc = AfterDial, !.dials = @ + 1, !.dialErr = e,
                                  !.init = [Code |-> CodeDialErr, Err |-> ErrorText(e),
                                            Net |-> OpErrorFields(e).Net,
                                            Op |-> OpErrorFields(e).Op]])
    /\ ChUnchanged

\* lines 306-321, called at 331 and 344: sendInitMessage writes init (the
\* write fails on a channel the remote side has closed, and then nothing is
\* closed) and calls dc.Close() when init.Err is set; json.Marshal of a
\* struct of four strings does not fail. Lines 332 and 345-347: what follows
ChSendInit(c) ==
    /\ chans[c].pc \in {"send", "senderr"}
    /\ LET ch == chans[c]
           wrote == ch.open
           closes == wrote /\ ClosesAfterInit(ch.init)
       IN chans' = ChSet(c,
            [ch EXCEPT !.pc = IF ch.pc = "senderr" THEN "returned" ELSE AfterSend(ch.init),
                       !.out = IF wrote THEN Append(@, InitFrame(ch.init)) ELSE @,
                       !.initWrite = IF wrote THEN "sent" ELSE "failed",
                       !.open = IF closes THEN FALSE ELSE @,
                       !.dcClosed = @ \/ closes])
    /\ ChUnchanged

\* line 360: io.Copy(co, nc) reads a chunk from the target and writes it on
\* the channel; a failed write ends the copy, and line 359 closes the channel
CopyFromTarget(c) ==
    /\ chans[c].pc \in {"bridge", "returned"}
    /\ ~chans[c].aDone
    /\ chans[c].nc = "open"
    /\ ~chans[c].targetEnded
    /\ chans[c].fromTarget < MaxBytes
    /\ LET ch == chans[c]
       IN chans' = ChSet(c,
            IF ch.open
            THEN [ch EXCEPT !.fromTarget = @ + 1, !.out = Append(@, ByteFrame)]
            ELSE [ch EXCEPT !.fromTarget = @ + 1, !.aDone = TRUE,
                            !.dcClosed = @ \/ DeferDcClose])
    /\ ChUnchanged

\* lines 359-360: the read from the target fails (the target ended, or nc
\* was closed): io.Copy returns and the deferred dc.Close() runs
CopyAEnd(c) ==
    /\ chans[c].pc \in {"bridge", "returned"}
    /\ ~chans[c].aDone
    /\ chans[c].nc # "nil"
    /\ chans[c].targetEnded \/ chans[c].nc = "closed"
    /\ chans' = ChSet(c, [chans[c] EXCEPT !.aDone = TRUE,
                                          !.open = IF DeferDcClose THEN FALSE ELSE @,
                                          !.dcClosed = @ \/ DeferDcClose])
    /\ ChUnchanged

\* lines 356-357: the deferred co.Close() and nc.Close() of the callback
BridgeReturns(ch) ==
    [ch EXCEPT !.pc = "returned", !.bDone = TRUE, !.open = FALSE, !.dcClosed = TRUE,
               !.nc = IF @ = "nil" THEN @ ELSE "closed"]

\* line 362: io.Copy(nc, co) reads a chunk from the channel and writes it to
\* the target; a failed write ends the copy and the callback returns
CopyToTarget(c) ==
    /\ chans[c].pc = "bridge"
    /\ chans[c].open
    /\ chans[c].toTarget < MaxBytes
    /\ LET ch == chans[c]
       IN chans' = ChSet(c,
            IF ch.nc = "open" /\ ~ch.targetEnded
            THEN [ch EXCEPT !.toTarget = @ + 1]
            ELSE BridgeReturns(ch))
    /\ ChUnchanged

\* line 362: the read from the channel fails (the channel is closed):
\* io.Copy returns and the callback returns
CopyBEnd(c) ==
    /\ chans[c].pc = "bridge"
    /\ ~chans[c].open
    /\ chans' = ChSet(c, BridgeReturns(chans[c]))
    /\ ChUnchanged

\* the remote side closes the channel
ChRemoteClose(c) ==
    /\ chans[c].open
    /\ chans' = ChSet(c, [chans[c] EXCEPT !.open = FALSE, !.remoteClosed = TRUE])
    /\ ChUnchanged

\* the dialed target ends its connection
TargetEnds(c) ==
    /\ chans[c].nc = "open"
    /\ ~chans[c].targetEnded
    /\ chans' = ChSet(c, [chans[c] EXCEPT !.targetEnded = TRUE])
    /\ ChUnchanged

\* ------------------------------- part_000 lines 139-200, workspaces ping
PingUnchanged == UNCHANGED <<listenerVars, offerVars, chans, ssh, closer, upd>>

\* part_000 lines 151-178: the command starts with --count n
PingStart(n) ==
    /\ pinger.pc = "idle"
    /\ pinger' = [pinger EXCEPT !.pc = "wait", !.count = n]
    /\ PingUnchanged

\* part_000 lines 181-189: a tick: ping, return on its error, else seq++
\* and os.Exit(0) when count > 0 and seq >= count
PingTick ==
    /\ pinger.pc = "wait"
    /\ pinger.ticks < MaxTicks
    /\ \E path \in DialPaths, res \in PingResults :
          LET r == ping([pinger EXCEPT !.ticks = @ + 1], path, res)
              q == [r EXCEPT !.seq = @ + 1]
          IN pinger' = IF r.ret = "fatal" THEN [r EXCEPT !.pc = "returned"]
                       ELSE IF q.count > 0 /\ q.seq >= q.count
                            THEN [q EXCEPT !.pc = "exited"]
                            ELSE q
    /\ PingUnchanged

\* part_000 lines 190-191: the context of the command is done
PingCtxDone ==
    /\ pinger.pc = "wait"
    /\ pinger' = [pinger EXCEPT !.pc = "returned", !.ret = "nil"]
    /\ PingUnchanged

\* ------------------------------- part_001 lines 51-85, config-ssh --remove
\* part_001 lines 65-71: readStr gives the content of the file (a file that
\* does not exist reads as the empty string)
SSHRead(f) ==
    /\ ssh.pc = "idle"
    /\ ssh' = [ssh EXCEPT !.pc = "read", !.file = f, !.orig = f]
    /\ UNCHANGED <<listenerVars, offerVars, chans, pinger, closer, upd>>

\* part_001 lines 73-85: removeOldConfig; with --remove the command fails
\* when nothing was removed, else it writes the rest to the file
SSHRemove ==
    /\ ssh.pc = "read"
    /\ LET r == removeOldConfig(ssh.file)
       IN ssh' = IF r.panic THEN [ssh EXCEPT !.pc = "done", !.ret = "panic"]
                 ELSE IF ~r.ok THEN [ssh EXCEPT !.pc = "done", !.ret = "error"]
                 ELSE [ssh EXCEPT !.pc = "done", !.ret = "nil", !.file = r.config]
    /\ UNCHANGED <<listenerVars, offerVars, chans, pinger, closer, upd>>

\* --------------------------------------- l.connClosersMut (lines 228-230, 368-377)
CloserUnchanged == UNCHANGED <<listenerVars, offerVars, chans, pinger, ssh, upd>>

\* a state-change callback that locks l.connClosersMut
CallbackLocksMutex(p) == TRUE

\* lines 221-226: the state-change callback only closes the substream
CallbackLocks(p) == FALSE

\* lines 216-226: a negotiation has created its peer and set its callback
NegCreate(n) ==
    /\ closer.pc[n] = "idle"
    /\ closer' = [closer EXCEPT !.pc[n] = "lock", !.rtc[PeerOf(n)] = "open"]
    /\ CloserUnchanged

\* line 228: l.connClosersMut.Lock()
NegLock(n) ==
    /\ closer.pc[n] = "lock"
    /\ closer.mu = "free"
    /\ closer' = [closer EXCEPT !.pc[n] = "append", !.mu = n]
    /\ CloserUnchanged

\* lines 229-230: append(l.connClosers, rtc); Unlock()
NegAppend(n) ==
    /\ closer.pc[n] = "append"
    /\ closer' = [closer EXCEPT !.pc[n] = "done", !.mu = "free",
                                !.list = Append(@, PeerOf(n))]
    /\ CloserUnchanged

\* line 368: somebody calls Close()
CloseCall(t) ==
    /\ closer.pc[t] = "idle"
    /\ closer' = [closer EXCEPT !.pc[t] = "lock"]
    /\ CloserUnchanged

\* line 369: l.connClosersMut.Lock()
CloseLock(t) ==
    /\ closer.pc[t] = "lock"
    /\ closer.mu = "free"
    /\ closer' = [closer EXCEPT !.pc[t] = "loop", !.mu = t, !.i[t] = 1]
    /\ CloserUnchanged

\* lines 370-374: connCloser.Close() of the next registered peer; closing an
\* open peer makes its state closed, and the library runs the callback
\* either inside Close() (sync) or on a goroutine of its own; a callback
\* that had to lock the mutex inside Close() would wait for its own caller
CloseNext(t, sync) ==
    /\ closer.pc[t] = "loop"
    /\ closer.i[t] <= Len(closer.list)
    /\ LET p == closer.list[closer.i[t]] IN
       IF closer.rtc[p] # "open"
       THEN closer' = [closer EXCEPT !.i[t] = @ + 1]
       ELSE IF ~sync
       THEN closer' = [closer EXCEPT !.i[t] = @ + 1, !.rtc[p] = "closed", !.cb[p] = "pending"]
       ELSE IF CallbackLocks(p)
       THEN closer' = [closer EXCEPT !.pc[t] = "callback", !.rtc[p] = "closed",
                                     !.cb[p] = "inside"]
       ELSE closer' = [closer EXCEPT !.i[t] = @ + 1, !.rtc[p] = "closed", !.cb[p] = "done",
                                     !.conn[p] = FALSE]
    /\ CloserUnchanged

\* line 375: Unlock()
CloseUnlock(t) ==
    /\ closer.pc[t] = "loop"
    /\ closer.i[t] > Len(closer.list)
    /\ closer' = [closer EXCEPT !.pc[t] = "ws", !.mu = "free"]
    /\ CloserUnchanged

\* line 376: return l.ws.Close(...)
CloseReturn(t) ==
    /\ closer.pc[t] = "ws"
    /\ closer' = [closer EXCEPT !.pc[t] = "returned"]
    /\ CloserUnchanged

\* lines 221-226: the callback of peer p on a goroutine of the library
Callback(p) ==
    /\ closer.cb[p] = "pending"
    /\ CallbackLocks(p) => closer.mu = "free"
    /\ closer' = [closer EXCEPT !.cb[p] = "done", !.conn[p] = FALSE]
    /\ CloserUnchanged

\* ------------------------------------ internal/cmd/update.go, updater.Run
UpdUnchanged == UNCHANGED <<listenerVars, offerVars, chans, pinger, ssh, closer>>

OSes == {"linux", "darwin", "windows"}

\* the downloaded bytes: what http.DetectContentType makes of them, whether
\* the archive opens (zip.NewReader, gzip.NewReader), the names of its
\* entries, whether they are regular files, and whether the data after the
\* headers can be read to the end
Archives ==
    [type : {"zip", "gzip", "other"}, opens : BOOLEAN,
     names : SUBSET {"coder", "coder.exe"}, regular : BOOLEAN, intact : BOOLEAN]

\* lines 189-194: the name of the binary looked for in the archive
updatedBinaryName(os) == IF os = "windows" THEN "coder.exe" ELSE "coder"

\* lines 264-293
extractFromZip(path, a) ==
    IF ~a.opens THEN [err |-> "open zip", bytes |-> "none"]
    ELSE IF path \notin a.names THEN [err |-> "not found", bytes |-> "none"]
    ELSE IF ~a.intact THEN [err |-> "extract", bytes |-> "none"]
    ELSE [err |-> "nil", bytes |-> "new"]

\* lines 295-321: the loop ends at io.EOF without an error when no entry has
\* the name, and the error of io.Copy at line 315 is dropped
extractFromTgz(path, a) ==
    IF ~a.opens THEN [err |-> "gunzip", bytes |-> "none"]
    ELSE IF path \in a.names /\ a.regular
    THEN [err |-> "nil", bytes |-> IF a.intact THEN "new" ELSE "partial"]
    ELSE IF ~a.intact THEN [err |-> "read tar", bytes |-> "none"]
    ELSE [err |-> "nil", bytes |-> "empty"]

\* lines 252-262
extractFromArchive(path, a) ==
    CASE a.type = "zip" -> extractFromZip(path, a)
      [] a.type = "gzip" -> extractFromTgz(path, a)
      [] OTHER -> [err |-> "unknown archive type", bytes |-> "none"]

\* return clog.Fatal(...) at step e
UpdFails(e) == upd' = [upd EXCEPT !.pc = "returned", !.ret = "error", !.err = e]
UpdGoes(pc) == upd' = [upd EXCEPT !.pc = pc]

\* line 90: the command is run with or without --force on some system
UpdRun(force, os) ==
    /\ upd.pc = "idle"
    /\ upd' = [upd EXCEPT !.pc = "blocklist", !.force = force, !.os = os]
    /\ UpdUnchanged

\* lines 95-111: the executable is under a blocklisted prefix or not
UpdBlocklist(blocked) ==
    /\ upd.pc = "blocklist"
    /\ IF blocked THEN UpdFails("blocklist") ELSE UpdGoes("stat")
    /\ UpdUnchanged

\* lines 113-120: Stat of the executable, and its write permission
UpdStat(r) ==
    /\ upd.pc = "stat"
    /\ r \in {"ok", "stat", "permission"}
    /\ IF r = "ok" THEN UpdGoes("url") ELSE UpdFails(r)
    /\ UpdUnchanged

\* lines 122-138: the coder URL from the flag or the configuration
UpdURL(ok) ==
    /\ upd.pc = "url"
    /\ IF ok THEN UpdGoes("version") ELSE UpdFails("url")
    /\ UpdUnchanged

\* lines 140-160: the version of the instance is fetched and compared with
\* the version of the binary when that one parses (current = 0: it does not)
UpdVersion(fetched, desired, current) ==
    /\ upd.pc = "version"
    /\ IF ~fetched THEN UpdFails("version")
       ELSE IF current # 0 /\ desired = current
       THEN upd' = [upd EXCEPT !.pc = "returned", !.ret = "nil", !.err = "up to date"]
       ELSE IF upd.force THEN UpdGoes("download") ELSE UpdGoes("confirm")
    /\ UpdUnchanged

\* lines 155-160: the prompt
UpdConfirm(yes) ==
    /\ upd.pc = "confirm"
    /\ IF yes THEN UpdGoes("download") ELSE UpdFails("confirm")
    /\ UpdUnchanged

\* lines 162-185: the archive is downloaded into memory
UpdDownload(r, a) ==
    /\ upd.pc = "download"
    /\ r \in {"ok", "get", "status", "download", "save"}
    /\ a \in Archives
    /\ IF r = "ok" THEN upd' = [upd EXCEPT !.pc = "extract", !.archive = a] ELSE UpdFails(r)
    /\ UpdUnchanged

\* lines 189-198: extractFromArchive
UpdExtract ==
    /\ upd.pc = "extract"
    /\ LET x == extractFromArchive(updatedBinaryName(upd.os), upd.archive) IN
       IF x.err # "nil" THEN UpdFails("extract")
       ELSE upd' = [upd EXCEPT !.pc = "create", !.binary = x.bytes]
    /\ UpdUnchanged

\* lines 201-205: OpenFile of <executable>.new with O_CREATE|O_TRUNC
UpdCreate(ok) ==
    /\ upd.pc = "create"
    /\ IF ok THEN upd' = [upd EXCEPT !.pc = "write", !.newFile = "created"]
       ELSE UpdFails("create")
    /\ UpdUnchanged

\* lines 207-214: the binary is copied to the file and flushed
UpdWrite(r) ==
    /\ upd.pc = "write"
    /\ r \in {"ok", "write", "persist"}
    /\ IF r = "ok" THEN upd' = [upd EXCEPT !.pc = "rename", !.newFile = upd.binary]
       ELSE upd' = [upd EXCEPT !.pc = "returned", !.ret = "error", !.err = r,
                               !.newFile = "unfinished"]
    /\ UpdUnchanged

\* lines 216-221: Rename of <executable>.new over the executable
UpdRename(ok) ==
    /\ upd.pc = "rename"
    /\ IF ok THEN upd' = [upd EXCEPT !.pc = "returned", !.ret = "nil", !.err = "nil",
                                      !.exe = upd.newFile, !.newFile = "absent"]
       ELSE UpdFails("rename")
    /\ UpdUnchanged

\* part_001 lines 73 and 87-123: a run without --remove takes the old
\* section out of what it read and writes the rest followed by the new section
SSHWritten(h) ==
    LET r == removeOldConfig(ssh.file) IN
    IF r.panic THEN [ssh EXCEPT !.pc = "done", !.ret = "panic"]
    ELSE [ssh EXCEPT !.pc = "written", !.ret = "nil", !.runs = @ + 1, !.hosts = h,
                     !.file = r.config \o makeNewConfigs(h),
                     !.first = IF ssh.runs = 0 THEN r.config \o makeNewConfigs(h) ELSE @]

\* the first run of config-ssh on the file, with the environments of the user
SSHConfigure(h) ==
    /\ ssh.pc = "read"
    /\ h \in HostConfigs
    /\ ssh' = SSHWritten(h)
    /\ UNCHANGED <<listenerVars, offerVars, chans, pinger, closer, upd>>

\* config-ssh is run again with the same environments; it reads the file
\* the run before wrote
SSHAgain ==
    /\ ssh.pc = "written"
    /\ ssh.runs < 2
    /\ ssh' = SSHWritten(ssh.hosts)
    /\ UNCHANGED <<listenerVars, offerVars, chans, pinger, closer, upd>>

\* the goroutines of Listen: the first dial, the accept loops, the supervisor
Supervise ==
    \/ ListenDial
    \/ \E k \in 1..MaxConns, e \in AcceptErrs : AcceptFail(k, e)
    \/ \E k \in 1..MaxConns : AcceptStream(k)
    \/ SupRecv
    \/ Tick
    \/ SupRedial
    \/ SupCtxDone
    \/ SupTerminal
    \/ SupCloseWs
    \/ CtxCancel
    \/ CtxDeadline

\* Close() called by the owner of the listener
Closing ==
    \/ UserClose
    \/ UserCloseWs

\* the negotiate goroutines and the ICE agents of their peers
Negotiate ==
    \/ \E s \in StreamIds : DecodeFail(s)
    \/ \E s \in StreamIds, f \in Frames : RecvFrame(s, f)
    \/ \E s \in StreamIds : CreatePeer(s)
    \/ \E s \in StreamIds : Register(s)
    \/ \E s \in StreamIds : SetRemote(s)
    \/ \E s \in StreamIds : Answer(s)
    \/ \E s \in StreamIds : WriteAnswer(s)
    \/ \E s \in StreamIds : FlushPending(s)
    \/ \E p \in PeerIds, to \in {"connecting", "connected", "disconnected", "failed"} :
          PeerChange(p, to)

Next == Supervise \/ Closing \/ Negotiate

\* the whole listener
Spec == Init /\ [][Next]_vars

\* the supervisor, the accept loops and Close(), with the negotiations of the
\* accepted substreams not yet scheduled
NextSupervisor == Supervise \/ Closing
SpecSupervisor == Init /\ [][NextSupervisor]_vars

\* the negotiations on the first broker session, with Close(), while the
\* session lasts and the supervisor is waiting in <-ch
NextNegotiate ==
    \/ ListenDial
    \/ \E k \in 1..MaxConns : AcceptStream(k)
    \/ Closing
    \/ Negotiate
SpecNegotiate == Init /\ [][NextNegotiate]_vars

\* a reconnect: the transport of the first broker session is lost (its Accept
\* returns io.EOF), the supervisor redials, and the negotiations of the
\* substreams go on meanwhile; nobody calls Close() and the context stays active
NextReconnect ==
    \/ ListenDial
    \/ AcceptFail(1, "EOF")
    \/ \E k \in 1..MaxConns : remote < MaxEvents /\ AcceptStream(k)
    \/ SupRecv
    \/ Tick
    \/ SupRedial
    \/ \E s \in StreamIds : DecodeFail(s)
    \/ \E s \in StreamIds, f \in Frames : remote < MaxEvents /\ RecvFrame(s, f)
    \/ \E s \in StreamIds : CreatePeer(s)
    \/ \E s \in StreamIds : Register(s)
    \/ \E s \in StreamIds : SetRemote(s)
    \/ \E s \in StreamIds : Answer(s)
    \/ \E s \in StreamIds : WriteAnswer(s)
    \/ \E s \in StreamIds : FlushPending(s)
    \/ \E p \in PeerIds, to \in {"connecting", "connected", "disconnected", "failed"} :
          PeerChange(p, to)
SpecReconnect == Init /\ [][NextReconnect]_vars

\* the scheduler runs every goroutine that can take a step, and time passes
SpecSupervisorFair ==
    /\ SpecSupervisor
    /\ WF_vars(SupRecv)
    /\ WF_vars(Tick)
    /\ WF_vars(SupRedial)
    /\ WF_vars(SupCtxDone)
    /\ WF_vars(SupTerminal)
    /\ WF_vars(SupCloseWs)

\* one offer frame from its decoding to the peer or the error, for every
\* servers list, turn proxy url and listener token
InitOffer == InitListener /\ turnProxyAuthToken \in Tokens
NextOffer ==
    \/ \E m \in OfferMsgs : HandleOffer(m)
    \/ CheckServers
    \/ RangeServers
    \/ TurnProxy
    \/ NewPeerConnection
SpecOffer == InitOffer /\ [][NextOffer]_vars

\* the negotiations on the first broker session while time passes
NextTimeout ==
    \/ ListenDial
    \/ \E k \in 1..MaxConns : AcceptStream(k)
    \/ Negotiate
    \/ \E p \in PeerIds : TimeoutPasses(p)
SpecTimeout == Init /\ [][NextTimeout]_vars

\* the echo loop of one control channel and its remote side
NextControl ==
    \/ CtlOnOpen
    \/ CtlDetach
    \/ CtlRead
    \/ CtlWrite
    \/ CtlRemoteClose
SpecControl == Init /\ [][NextControl]_vars

\* the application channels of one peer, their handlers and bridges, the
\* remote side and the targets
NextChannel ==
    \/ \E c \in ChanIds, label \in Labels : ChOnOpen(c, label)
    \/ \E c \in ChanIds : ChDetach(c)
    \/ \E c \in ChanIds : ChGetAddress(c)
    \/ \E c \in ChanIds : ChDial(c)
    \/ \E c \in ChanIds : ChSendInit(c)
    \/ \E c \in ChanIds : CopyFromTarget(c)
    \/ \E c \in ChanIds : CopyAEnd(c)
    \/ \E c \in ChanIds : CopyToTarget(c)
    \/ \E c \in ChanIds : CopyBEnd(c)
    \/ \E c \in ChanIds : ChRemoteClose(c)
    \/ \E c \in ChanIds : TargetEnds(c)
SpecChannel == Init /\ [][NextChannel]_vars

\* the scheduler runs both copies of every bridge
SpecChannelFair ==
    /\ SpecChannel
    /\ \A c \in ChanIds : WF_vars(CopyAEnd(c)) /\ WF_vars(CopyBEnd(c))

\* one run of workspaces ping
NextPing ==
    \/ \E n \in Counts : PingStart(n)
    \/ PingTick
    \/ PingCtxDone
SpecPing == Init /\ [][NextPing]_vars

\* one run of config-ssh --remove on every content of the file
NextSSH ==
    \/ \E f \in Files : SSHRead(f)
    \/ SSHRemove
SpecSSH == Init /\ [][NextSSH]_vars

\* Close() called by the owner and by the supervisor while two negotiations
\* register their peers
NextClose ==
    \/ \E n \in Negs : NegCreate(n)
    \/ \E n \in Negs : NegLock(n)
    \/ \E n \in Negs : NegAppend(n)
    \/ \E t \in Closers : CloseCall(t)
    \/ \E t \in Closers : CloseLock(t)
    \/ \E t \in Closers, sync \in BOOLEAN : CloseNext(t, sync)
    \/ \E t \in Closers : CloseUnlock(t)
    \/ \E t \in Closers : CloseReturn(t)
    \/ \E p \in {1, 2} : Callback(p)
SpecClose == Init /\ [][NextClose]_vars

\* every goroutine that can take a step takes one
SpecCloseFair ==
    /\ SpecClose
    /\ \A n \in Negs : WF_vars(NegLock(n)) /\ WF_vars(NegAppend(n))
    /\ \A t \in Closers :
          /\ WF_vars(CloseLock(t))
          /\ WF_vars(\E sync \in BOOLEAN : CloseNext(t, sync))
          /\ WF_vars(CloseUnlock(t))
          /\ WF_vars(CloseReturn(t))
    /\ \A p \in {1, 2} : WF_vars(Callback(p))

\* one run of coder update, for every outcome of every step
NextUpdate ==
    \/ \E force \in BOOLEAN, os \in OSes : UpdRun(force, os)
    \/ \E blocked \in BOOLEAN : UpdBlocklist(blocked)
    \/ \E r \in {"ok", "stat", "permission"} : UpdStat(r)
    \/ \E ok \in BOOLEAN : UpdURL(ok)
    \/ \E fetched \in BOOLEAN, desired \in 1..2, current \in 0..2 :
          UpdVersion(fetched, desired, current)
    \/ \E yes \in BOOLEAN : UpdConfirm(yes)
    \/ \E r \in {"ok", "get", "status", "download", "save"}, a \in Archives : UpdDownload(r, a)
    \/ UpdExtract
    \/ \E ok \in BOOLEAN : UpdCreate(ok)
    \/ \E r \in {"ok", "write", "persist"} : UpdWrite(r)
    \/ \E ok \in BOOLEAN : UpdRename(ok)
SpecUpdate == Init /\ [][NextUpdate]_vars

\* config-ssh run once and twice on every content of the file
NextSSHWrite ==
    \/ \E f \in Files : SSHRead(f)
    \/ \E h \in HostConfigs : SSHConfigure(h)
    \/ SSHAgain
SpecSSHWrite == Init /\ [][NextSSHWrite]_vars

\* ================================================================== claims
PeersOf(s) == { p \in PeerIds : peers[p].stream = s }
FirstPeer(s) == CHOOSE p \in PeersOf(s) : \A q \in PeersOf(s) : p <= q
Last(seq) == seq[Len(seq)]
Terminal == {"terminal", "closews", "done"}

\* C1: once a call of Close() by the owner has returned, every peer that a
\* negotiation of this listener has created is closed.
C1_AllPeersClosedAfterClose ==
    userPc = "returned" => \A p \in PeerIds : peers[p].state = "closed"

\* C2: once Close() called by the owner has returned, the supervisor makes
\* no redial and the accept loops accept no substream.
C2_NoRedialAfterClose ==
    [][userPc = "returned" =>
         /\ redials' <= redials
         /\ Len(conns') = Len(conns)
         /\ Len(streams') = Len(streams)]_vars

\* C3: a call of Close() made after the supervisor has stopped on a terminal
\* error returns the error stored in l.acceptError.
C3_CloseReturnsTerminalError ==
    (userPc = "returned" /\ userSawStop) => userRet = acceptError

\* C4: in the retry loop every redial consumes one tick of the ticker, so
\* none is made before the first tick; a redial that fails while the context
\* is live leaves the supervisor in the retry loop whatever the error; the
\* loop is left only by a redial that succeeded or with the context done.
C4_RedialPerTick ==
    [][supPc = "retry" =>
         /\ (redials' # redials =>
                 /\ redials' = redials + 1
                 /\ tickPending /\ ~tickPending'
                 /\ ticks = redials + 1
                 /\ ticks' = ticks)
         /\ (redials' # redials /\ supErr' # "nil" /\ ctx = "active" => supPc' = "retry")
         /\ (supPc' # "retry" =>
                 \/ redials' = redials + 1 /\ supErr' = "nil" /\ supPc' = "recv"
                 \/ ctx # "active")]_vars

C4_Witness ==
    /\ supPc = "retry"
    /\ redials = 2
    /\ ticks = 3
    /\ tickPending
    /\ supErr \in DialErrs \cup {"MuxError"}
    /\ ctx = "active"

\* C5: while the supervisor is in the retry loop (the accept loop returned
\* io.EOF or a keepalive timeout) the listener holds no session whose accept
\* loop runs; and under fair scheduling, if the context stays live, the
\* supervisor in the retry loop later waits on a broker session that is the
\* last one dialed and whose accept loop runs, so on a new session, after any
\* number of failed redials.
C5_Reconnects ==
    /\ [](supPc = "retry" => \A k \in Sessions : ~SessionAlive(k))
    /\ [](ctx = "active") =>
           ((supPc = "retry" /\ Len(conns) < MaxConns) ~>
                 (/\ supPc = "recv"
                  /\ supCh = Len(conns)
                  /\ SessionAlive(supCh)))

C5_Witness ==
    /\ ctx = "active"
    /\ failedDials = MaxFailedDials
    /\ supPc = "recv"
    /\ supCh > 1
    /\ SessionAlive(supCh)
    /\ \E s \in StreamIds : streams[s].sess = supCh

\* C6: when the dial made by Listen fails, Listen returns the error and no
\* listener, the supervisor is never started, no tick is taken, no redial is
\* made, no substream is accepted and nobody can call Close().
C6_FailedListen ==
    listenErr # "nil" =>
        /\ listenPc = "err"
        /\ supPc = "none"
        /\ ticks = 0 /\ redials = 0 /\ ~tickPending
        /\ Len(conns) <= 1 /\ failedDials <= 1
        /\ \A k \in Sessions : conns[k].accept = "none"
        /\ streams = << >>
        /\ userPc = "idle"

C6_Witness ==
    /\ listenPc = "err"
    /\ listenErr = "HTTPError"
    /\ failedDials = 1

\* C7: the supervisor is in its terminal branch exactly when the accept loop
\* returned an error that is neither io.EOF nor the keepalive timeout, or the
\* context was done in the retry loop; the error is then stored in
\* l.acceptError, Close() is called (the websocket is closed when the
\* supervisor has stopped), and the supervisor never dials again.
C7_TerminalInv ==
    /\ supPc \in Terminal =>
          \/ supCause = "accept" /\ supErr \in AcceptErrs \ {"EOF", "KeepAliveTimeout"}
          \/ /\ supCause \in {"ctx", "redial"}
             /\ ctx # "active"
             /\ IsCanceled(supErr) \/ IsDeadlineExceeded(supErr)
    /\ supPc \in {"closews", "done"} => acceptError = supErr /\ acceptError # "nil"
    /\ supPc = "done" => ~conns[ws].open
    /\ supPc \notin Terminal => acceptError = "nil"

C7_TerminalStep ==
    /\ supPc = "recv" /\ supPc' # "recv" =>
          (supPc' \in Terminal <=> supErr' \notin {"EOF", "KeepAliveTimeout"})
    /\ supPc = "retry" /\ ctx # "active" /\ <<supPc, supErr, redials>>' # <<supPc, supErr, redials>> =>
          supPc' \in Terminal
    /\ supPc = "retry" /\ ctx = "active" => supPc' \notin Terminal
    /\ supPc \in Terminal =>
          /\ supPc' \in Terminal
          /\ <<Len(conns), failedDials, redials, ws>>' = <<Len(conns), failedDials, redials, ws>>
          /\ acceptError' \in {acceptError, supErr}

C7_Terminal == []C7_TerminalInv /\ [][C7_TerminalStep]_vars

C7_Witness ==
    /\ supPc = "done"
    /\ supCause = "ctx"
    /\ acceptError = "DeadlineExceeded"
    /\ redials = 1

\* C8: while no peer exists on a substream every candidate received is in
\* pendingCandidates, in arrival order, and none is applied; the buffered
\* candidates are applied to the peer of the first offer only, once each and
\* in arrival order, before any later candidate; a peer has candidates
\* applied only when it has the offer as remote description; and when the
\* offer has been handled to the end every buffered candidate is applied.
C8_BufferedCandidates ==
    \A s \in StreamIds :
        LET st == streams[s]
            IsPrefix(a, b) == Len(a) <= Len(b) /\ \A j \in 1..Len(a) : a[j] = b[j]
        IN /\ (PeersOf(s) = {} /\ st.pc # "done") =>
                  /\ st.pending = [j \in 1..st.ncand |-> j]
                  /\ st.buffered = st.pending
           /\ \A p \in PeersOf(s) :
                  LET a == peers[p].applied IN
                  /\ a # << >> => peers[p].remoteSet
                  /\ \A j, k \in 1..Len(a) : j < k => a[j] < a[k]
                  /\ IF p = FirstPeer(s)
                     THEN IsPrefix(a, st.buffered) \/ IsPrefix(st.buffered, a)
                     ELSE \A j \in 1..Len(a) : a[j] \notin Range(st.buffered)
                  /\ (st.pc = "flush" /\ st.rtc = p /\ p = FirstPeer(s)) =>
                         a = SubSeq(st.buffered, 1, st.i)
           /\ (PeersOf(s) # {} /\ (st.pc = "decode" \/ Cardinality(PeersOf(s)) > 1)) =>
                  IsPrefix(st.buffered, peers[FirstPeer(s)].applied)

C8_Witness ==
    \E s \in StreamIds :
        /\ streams[s].pc = "decode"
        /\ Len(streams[s].buffered) = 2
        /\ PeersOf(s) # {}
        /\ peers[FirstPeer(s)].applied = streams[s].buffered

\* C9 as stated: a substream on which a frame with the error field was
\* decoded is closed, its negotiation has ended, and its peer is closed
\* unless it has reached connected.
C9_ErrorFrameEndsExchange ==
    \A s \in StreamIds :
        streams[s].nerr > 0 =>
            /\ streams[s].pc = "done"
            /\ ~streams[s].connOpen
            /\ \A p \in PeersOf(s) : ~peers[p].reached => peers[p].state = "closed"

\* C9 amended: negotiate does not read the error field: decoding a frame
\* that carries only an error changes nothing but the count of frames; the
\* substream stays as it was, nothing is written, no peer is touched and the
\* negotiation goes on decoding.
C9_ErrorFrameIgnored ==
    [][\A s \in StreamIds :
          streams'[s].nerr # streams[s].nerr =>
              /\ streams'[s] = [streams[s] EXCEPT !.nerr = @ + 1]
              /\ streams'[s].pc = "decode"
              /\ peers' = peers]_vars

C9_Witness ==
    \E s \in StreamIds :
        /\ streams[s].nerr > 0
        /\ streams[s].pc = "decode"
        /\ Usable(s)
        /\ streams[s].rtc # 0
        /\ peers[streams[s].rtc].state = "connecting"

\* C10 as stated: a negotiation ended by an error has written an error frame
\* and closed its substream; its peer is closed if it never reached
\* connected, and is not closed by closeError if it ever reached connected.
C10_ErrorPathSparesReached ==
    \A s \in StreamIds :
        streams[s].pc = "done" =>
            /\ streams[s].errWrite # "none"
            /\ ~streams[s].connOpen
            /\ streams[s].errPeer # 0 =>
                  LET p == peers[streams[s].errPeer] IN
                  /\ ~p.reached => p.state = "closed"
                  /\ p.reached => p.closedBy # "closeError"

\* C10 amended: a negotiation ended by an error has tried to write an error
\* frame (it is on the substream when the substream still worked) and has
\* closed the substream; the peer rtc named is closed unless its connection
\* state was connected when the error was handled, and then closeError left
\* it alone and rtc still names it.
C10_ErrorPathSparesConnected ==
    \A s \in StreamIds :
        LET st == streams[s] IN
        st.pc = "done" =>
            /\ st.errWrite \in {"sent", "failed"}
            /\ st.errWrite = "sent" <=> (st.out # << >> /\ Last(st.out) = "error")
            /\ ~st.connOpen
            /\ st.errPeer # 0 =>
                  LET p == peers[st.errPeer] IN
                  /\ st.errState # "connected" => p.state = "closed" /\ st.rtc = 0
                  /\ st.errState = "connected" => p.closedBy # "closeError" /\ st.rtc = st.errPeer
                  /\ (st.errState \notin {"connected", "closed"}) => p.closedBy = "closeError"

C10_Witness ==
    \E s \in StreamIds :
        /\ streams[s].pc = "done"
        /\ streams[s].errPeer # 0
        /\ streams[s].errState = "disconnected"
        /\ peers[streams[s].errPeer].reached
        /\ peers[streams[s].errPeer].closedBy = "closeError"

\* C14: l.connClosers holds only peers that are neither failed nor closed: a
\* peer that reaches failed or closed is removed from the list.
C14_ClosersHoldLivePeers ==
    \A i \in DOMAIN connClosers :
        peers[connClosers[i]].state \notin {"failed", "closed"}

\* C15: the peers created from one substream are never two unclosed at the
\* same time, whatever offers arrive on it.
C15_OnePeerPerStream ==
    \A s \in StreamIds :
        Cardinality({ p \in PeersOf(s) : peers[p].state # "closed" }) <= 1

\* C13: in every step, a peer whose connection state changes to a state
\* other than connecting has the substream of its negotiation closed after
\* the step, and a change to connecting leaves the substream as it was.
C13_StateChangeClosesStream ==
    [][\A p \in PeerIds :
          peers'[p].state # peers[p].state =>
              IF peers'[p].state = "connecting"
              THEN streams'[peers[p].stream].connOpen = streams[peers[p].stream].connOpen
              ELSE ~streams'[peers[p].stream].connOpen]_vars

C13_Witness ==
    \E p \in PeerIds :
        /\ peers[p].state = "connected"
        /\ streams[peers[p].stream].pc = "decode"
        /\ ~streams[peers[p].stream].connOpen
        /\ \E q \in PeerIds :
              /\ peers[q].state = "connecting"
              /\ streams[peers[q].stream].connOpen

\* C16 as stated: the buffered candidates are flushed before the answer
\* frame is sent, so once the answer of the first offer of a substream is
\* sent every candidate buffered on that substream has been applied.
C16_FlushBeforeAnswer ==
    \A s \in StreamIds :
        (PeersOf(s) # {} /\ peers[FirstPeer(s)].answered) =>
            Range(streams[s].buffered) \subseteq Range(peers[FirstPeer(s)].applied)

\* C16 amended: a peer has a local description only after the offer is its
\* remote description, its answer frame is sent only after the local
\* description is set, and candidates are applied to it only after its answer
\* frame is sent: when the answer is sent every buffered candidate is still
\* in pendingCandidates.
C16_AnswerBeforePending ==
    /\ \A p \in PeerIds :
          /\ peers[p].localSet => peers[p].remoteSet
          /\ peers[p].answered => peers[p].localSet
          /\ peers[p].applied # << >> => peers[p].answered
    /\ \A s \in StreamIds :
          (streams[s].pc = "flush" /\ streams[s].i = 0) =>
              /\ peers[streams[s].rtc].answered
              /\ Last(streams[s].out) = "answer"
              /\ PeersOf(s) = {streams[s].rtc} =>
                    /\ streams[s].pending = streams[s].buffered
                    /\ peers[streams[s].rtc].applied = << >>

C16_Witness ==
    \E s \in StreamIds :
        /\ streams[s].pc = "flush"
        /\ streams[s].i = 0
        /\ Len(streams[s].pending) = 2
        /\ peers[streams[s].rtc].answered

\* the answer frames written on a substream so far
Answers(s) == { j \in DOMAIN streams[s].out : streams[s].out[j] = "answer" }

\* C17: the answer frames sent on a substream are as many as the peers of
\* that substream whose answer was sent, each of these peers has the offer
\* as its remote description, and they are at most as many as the offer
\* frames received on the substream; a peer is created only by a
\* negotiation that holds a frame with an offer.
C17_AnswerInv ==
    \A s \in StreamIds :
        /\ Cardinality(Answers(s)) = Cardinality({ p \in PeersOf(s) : peers[p].answered })
        /\ Cardinality(Answers(s)) <= streams[s].noffer
        /\ Cardinality(PeersOf(s)) <= streams[s].noffer
        /\ \A p \in PeersOf(s) : peers[p].answered => peers[p].remoteSet

C17_AnswerStep ==
    Len(peers') > Len(peers) =>
        \E s \in StreamIds :
            /\ streams[s].pc = "probe"
            /\ streams[s].msg.offer
            /\ peers'[Len(peers')].stream = s

C17_AnswerFollowsOffer == []C17_AnswerInv /\ [][C17_AnswerStep]_vars

C17_Witness ==
    \E s \in StreamIds :
        /\ streams[s].noffer = 2
        /\ Cardinality(Answers(s)) = 2

\* the positions of the servers list that do not hold the sentinel username,
\* in list order
NonSentinel(l) ==
    SelectSeq([j \in 1..Len(l) |-> j], LAMBDA j : l[j] # turnProxyMagicUsername)
Dialed == [k \in DOMAIN handling.dialed |-> handling.dialed[k].server]
IsPrefixOf(a, b) == Len(a) <= Len(b) /\ \A j \in 1..Len(a) : a[j] = b[j]

\* C11: a peer is made only from an offer whose servers list is present and
\* after DialICE succeeded on every server that has not the sentinel
\* username; the servers are dialed in list order and a sentinel never is;
\* no server is dialed after a failed one: the failure ends the handling
\* with an error frame and no peer, and so does an absent servers list,
\* before any server is dialed.
C11_ProbedBeforePeer ==
    LET h == handling
        l == handling.msg.servers
    IN /\ h.rtc.made =>
             /\ ~h.msg.nil
             /\ Dialed = NonSentinel(l)
             /\ \A k \in DOMAIN h.dialed : h.dialed[k].ok
       /\ IsPrefixOf(Dialed, NonSentinel(l))
       /\ \A k \in DOMAIN h.dialed : l[h.dialed[k].server] # turnProxyMagicUsername
       /\ \A k \in DOMAIN h.dialed : k < Len(h.dialed) => h.dialed[k].ok
       /\ (h.dialed # << >> /\ ~Last(h.dialed).ok) =>
             /\ h.pc = "error"
             /\ h.err = [kind |-> "dial", server |-> Last(h.dialed).server]
             /\ h.out = <<"error">>
             /\ ~h.rtc.made
       /\ (h.msg.nil /\ h.pc \notin {"idle", "servers"}) =>
             /\ h.pc = "error"
             /\ h.err.kind = "servers"
             /\ h.out = <<"error">>
             /\ h.dialed = << >>
             /\ ~h.rtc.made

C11_Witness ==
    /\ handling.rtc.made
    /\ Len(handling.msg.servers) = MaxServers
    /\ handling.msg.servers[1] = turnProxyMagicUsername
    /\ Len(handling.dialed) = MaxServers - 1

\* C18: a peer is made with a turnProxyDialer exactly when the offer frame
\* has a TURNProxyURL that is not empty, and a turnProxyDialer always has
\* the listener's token and the parsed url of the frame.
C18_TurnProxyDialer ==
    LET h == handling
    IN /\ h.rtc.made => (h.rtc.turnProxy.set <=> h.msg.turn # "")
       /\ h.rtc.made => h.rtc.turnProxy = h.turnProxy
       /\ h.turnProxy.set =>
             /\ h.msg.turn # ""
             /\ h.turnProxy.token = turnProxyAuthToken
             /\ h.turnProxy.baseURL = h.msg.turn

C18_Witness ==
    /\ handling.rtc.made
    /\ handling.rtc.turnProxy.set
    /\ QueryToken(handling.msg.turn) # turnProxyAuthToken

\* C12: once the negotiation timeout has passed for a peer that was not
\* connected, and negotiate has sent the answer and waits for the next
\* frame, the peer is closed and an error frame has been written on the
\* substream of its negotiation.
C12_TimeoutEndsNegotiation ==
    \A p \in expired :
        (peers[p].answered /\ streams[peers[p].stream].pc = "decode") =>
        /\ peers[p].state = "closed"
        /\ \E j \in DOMAIN streams[peers[p].stream].out :
              streams[peers[p].stream].out[j] = "error"

\* C19: on the control channel the bytes written are at every moment a
\* prefix of the bytes read: a byte is written only after a read of one
\* byte, it is that byte, and nothing else is written.
C19_EchoIsPrefix == IsPrefixOf(ctl.wrote, ctl.got)

\* C20: a Read that returns EOF ends the echo loop silently: the callback
\* returns, nothing is written then or later, and no peer, substream or
\* closer of the listener is touched.
C20_Step ==
    /\ (ctl.pc = "read" /\ ctl'.reads = ctl.reads + 1 /\ ctl'.last = "EOF") =>
          /\ ctl'.pc = "returned"
          /\ ctl'.wrote = ctl.wrote
          /\ UNCHANGED listenerVars
    /\ ctl.pc = "returned" =>
          /\ ctl'.pc = "returned"
          /\ ctl'.wrote = ctl.wrote
          /\ ctl'.reads = ctl.reads
          /\ UNCHANGED listenerVars
C20_EOFEndsLoop == [][C20_Step]_vars
C20_Witness ==
    /\ ctl.pc = "returned"
    /\ ctl.last = "EOF"
    /\ Len(ctl.wrote) > 0

\* C21: for a channel whose label getAddress rejects, no target is ever
\* dialed; the only thing written on the channel is one DialChannelResponse,
\* with code permission_error for a label the policy denies and
\* bad_address_error for a label that does not parse; and once it is written
\* the listener has closed the channel.
C21_UnresolvedLabel ==
    \A c \in ChanIds :
        LET ch == chans[c]
        IN ch.label \in {"tcp:denied", "garbage"} =>
             /\ ch.dials = 0
             /\ ch.nc = "nil"
             /\ Len(ch.out) <= 1
             /\ \A j \in DOMAIN ch.out :
                   /\ ch.out[j].kind = "init"
                   /\ ch.out[j].init.Code =
                        (IF ch.label = "tcp:denied" THEN "permission_error"
                                                    ELSE "bad_address_error")
                   /\ ch.out[j].init.Err # ""
                   /\ ch.dcClosed
             /\ (ch.pc = "returned" /\ ch.initWrite = "sent") => Len(ch.out) = 1
C21_Witness ==
    /\ chans["c1"].label = "tcp:denied"
    /\ chans["c1"].pc = "returned"
    /\ Len(chans["c1"].out) = 1
    /\ chans["c2"].label = "garbage"
    /\ chans["c2"].pc = "returned"
    /\ Len(chans["c2"].out) = 1

\* C22: for a channel whose net.Dial failed, the only thing written on the
\* channel is one DialChannelResponse with code dial_error and the text of
\* the error, with Net and Op of the error when it is a *net.OpError and
\* empty otherwise; once it is written the listener has closed the channel;
\* and no chunk is ever copied in either direction.
C22_DialError ==
    \A c \in ChanIds :
        LET ch == chans[c]
        IN ch.dialErr \in {"OpError", "other"} =>
             /\ ch.nc = "nil"
             /\ ch.pc # "bridge"
             /\ ch.fromTarget = 0 /\ ch.toTarget = 0
             /\ Len(ch.out) <= 1
             /\ \A j \in DOMAIN ch.out :
                   /\ ch.out[j].kind = "init"
                   /\ ch.out[j].init.Code = "dial_error"
                   /\ ch.out[j].init.Err = ErrorText(ch.dialErr)
                   /\ ch.out[j].init.Err # ""
                   /\ ch.out[j].init.Net = (IF ch.dialErr = "OpError" THEN "tcp" ELSE "")
                   /\ ch.out[j].init.Op = (IF ch.dialErr = "OpError" THEN "dial" ELSE "")
                   /\ ch.dcClosed
             /\ (ch.pc = "returned" /\ ch.initWrite = "sent") => Len(ch.out) = 1
C22_Witness ==
    /\ chans["c1"].dialErr = "OpError"
    /\ chans["c1"].pc = "returned"
    /\ Len(chans["c1"].out) = 1
    /\ chans["c2"].dialErr = "other"
    /\ chans["c2"].pc = "returned"
    /\ Len(chans["c2"].out) = 1

\* C23: the step that writes a DialChannelResponse with an empty code leaves
\* the channel open and starts the bridge; the step that writes one with a
\* code closes the channel and returns; and on a channel with a response that
\* has a code, no chunk is ever written after it and no bridge runs.
C23_Inv ==
    \A c \in ChanIds :
        \A j \in DOMAIN chans[c].out :
            (chans[c].out[j].kind = "init" /\ chans[c].out[j].init.Code # "") =>
                /\ chans[c].dcClosed
                /\ ~chans[c].open
                /\ chans[c].pc = "returned"
                /\ Len(chans[c].out) = 1
                /\ chans[c].fromTarget = 0
C23_Step ==
    \A c \in ChanIds :
        (/\ Len(chans'[c].out) = Len(chans[c].out) + 1
         /\ chans'[c].out[Len(chans'[c].out)].kind = "init") =>
            IF chans'[c].out[Len(chans'[c].out)].init.Code = ""
            THEN /\ chans'[c].open
                 /\ ~chans'[c].dcClosed
                 /\ chans'[c].pc = "bridge"
                 /\ chans'[c].nc = "open"
            ELSE /\ ~chans'[c].open
                 /\ chans'[c].dcClosed
                 /\ chans'[c].pc = "returned"
C23_ResponseCode == []C23_Inv /\ [][C23_Step]_vars
C23_Witness ==
    /\ Len(chans["c1"].out) = 2
    /\ chans["c1"].out[1] = InitFrame(NoInit)
    /\ chans["c1"].out[2].kind = "byte"
    /\ Len(chans["c2"].out) = 1
    /\ chans["c2"].out[1].init.Code = "dial_error"
    /\ chans["c2"].dcClosed

\* C24: on every channel at most one DialChannelResponse is written and it
\* is the first thing written, before every chunk copied from the target;
\* and it has been written when the callback, after a Detach that succeeded,
\* bridges or has returned, unless the remote side closed the channel.
InitFrames(c) == SelectSeq(chans[c].out, LAMBDA f : f.kind = "init")
C24_OneResponseFirst ==
    \A c \in ChanIds :
        /\ Len(InitFrames(c)) <= 1
        /\ chans[c].out # << >> => chans[c].out[1].kind = "init"
        /\ chans[c].fromTarget > 0 /\ chans[c].open => Len(InitFrames(c)) = 1
        /\ (/\ chans[c].pc \in {"bridge", "returned"}
            /\ chans[c].detached
            /\ ~chans[c].remoteClosed) => Len(InitFrames(c)) = 1
C24_Witness ==
    /\ Len(chans["c1"].out) = 2
    /\ chans["c1"].out[1].kind = "init"
    /\ chans["c1"].out[2].kind = "byte"
    /\ chans["c1"].pc = "returned"
    /\ chans["c2"].pc = "bridge"
    /\ chans["c2"].toTarget = MaxBytes

\* C25: on a bridged channel, once the remote side has closed the channel or
\* the target has ended its connection, eventually both copies have ended,
\* the channel is closed by the listener and the connection to the target
\* is closed.
C25_BridgeEnds ==
    \A c \in ChanIds :
        (/\ chans[c].pc = "bridge"
         /\ chans[c].remoteClosed \/ chans[c].targetEnded)
        ~> (/\ chans[c].aDone
            /\ chans[c].bDone
            /\ chans[c].pc = "returned"
            /\ ~chans[c].open
            /\ chans[c].dcClosed
            /\ chans[c].nc = "closed")
C25_Witness ==
    /\ chans["c1"].targetEnded /\ ~chans["c1"].remoteClosed
    /\ chans["c1"].aDone /\ chans["c1"].bDone /\ chans["c1"].nc = "closed"
    /\ chans["c2"].remoteClosed /\ ~chans["c2"].targetEnded
    /\ chans["c2"].aDone /\ chans["c2"].bDone /\ chans["c2"].nc = "closed"

\* C26: a step of one application channel, a failure included (a denied or
\* bad address, a failed dial, the end of its target), changes that channel
\* only: every other channel keeps its state, and the peers, the substreams,
\* the closers of the listener and the control channel are left as they were.
C26_Step ==
    \A c \in ChanIds :
        chans'[c] # chans[c] =>
            /\ \A d \in ChanIds \ {c} : chans'[d] = chans[d]
            /\ UNCHANGED <<listenerVars, ctl>>
C26_ChannelLocal == [][C26_Step]_vars
C26_Witness ==
    /\ chans["c1"].pc = "returned"
    /\ chans["c1"].init.Code = "permission_error"
    /\ chans["c1"].dcClosed
    /\ chans["c2"].pc = "bridge"
    /\ chans["c2"].open
    /\ chans["c2"].fromTarget = MaxBytes
    /\ chans["c2"].toTarget = MaxBytes

\* C27: a step of a negotiation or of the ICE agent of a peer, a failure
\* included, changes one substream and peers of that substream only: every
\* other substream and every peer of another substream keep their state, and
\* the websockets, their sessions, the supervisor, Listen and the context
\* are left as they were.
C27_Step ==
    (/\ UNCHANGED <<userVars, dialVars>>
     /\ Len(streams') = Len(streams)
     /\ <<streams, peers>>' # <<streams, peers>>) =>
        /\ UNCHANGED <<ctx, listenVars, supVars>>
        /\ \E s \in DOMAIN streams :
              /\ \A k \in DOMAIN streams \ {s} : streams'[k] = streams[k]
              /\ \A p \in DOMAIN peers' :
                    (p \notin DOMAIN peers \/ peers'[p] # peers[p]) =>
                        peers'[p].stream = s
C28_Step ==
    pinger'.ticks = pinger.ticks + 1 =>
        /\ pinger'.err \in {"EOF", "ErrConnectionClosed"} =>
              /\ pinger'.dialer = 0
              /\ pinger'.ret = "nil"
              /\ pinger'.pc \in {"wait", "exited"}
              /\ pinger'.used \in pinger'.dead
        /\ pinger'.err = "other" =>
              /\ pinger'.ret = "fatal"
              /\ pinger'.pc = "returned"
        /\ pinger'.used # 0 => pinger'.used \notin pinger.dead
        /\ (pinger.dialer = 0 /\ pinger'.used # 0) =>
              /\ pinger'.dials = pinger.dials + 1
              /\ pinger'.used = pinger'.dials
C28_DeadPeerRedial == [][C28_Step]_vars
C28_Witness ==
    /\ pinger.dead # {}
    /\ pinger.used # 0
    /\ pinger.used \notin pinger.dead
    /\ pinger.err = "nil"
    /\ pinger.dials >= 2

\* C29: with --count N > 0 the command stops when N replies have been
\* logged: at its exit the pings answered are N.
C29_StopsAfterReplies ==
    pinger.pc = "exited" => pinger.replies = pinger.count

\* C30: after config-ssh --remove on a file that holds the section (a start
\* token and, after it, an end token) the command has succeeded and the file
\* is its old content without the section, from the first start token
\* through the first end token after it, where the newline just before and
\* the newline just after the section may go with it; on a file without the
\* section the command fails and the file is as it was.
SectionStart(f) == CHOOSE i \in DOMAIN f : f[i] = "S" /\ \A j \in 1..(i - 1) : f[j] # "S"
SectionEnd(f) ==
    CHOOSE i \in DOMAIN f :
        i > SectionStart(f) /\ f[i] = "E" /\ \A j \in (SectionStart(f) + 1)..(i - 1) : f[j] # "E"
HasSection(f) == \E i, j \in DOMAIN f : i < j /\ f[i] = "S" /\ f[j] = "E"
Cut(f, from, to) == SubSeq(f, 1, from - 1) \o SubSeq(f, to + 1, Len(f))
SectionRemoved(f) ==
    LET s == SectionStart(f)
        e == SectionEnd(f)
        before == IF s > 1 /\ f[s - 1] = "n" THEN {s - 1, s} ELSE {s}
        after == IF e < Len(f) /\ f[e + 1] = "n" THEN {e, e + 1} ELSE {e}
    IN { Cut(f, from, to) : from \in before, to \in after }
C30_RemovesSection ==
    ssh.pc = "done" =>
        IF HasSection(ssh.orig)
        THEN ssh.ret = "nil" /\ ssh.file \in SectionRemoved(ssh.orig)
        ELSE ssh.ret = "error" /\ ssh.file = ssh.orig

\* C31: a task of a peer that is gone ends whatever error its pending read
\* returns: the echo loop of the control channel has returned once a Read
\* on the closed channel has returned an error (the closed channel gives the
\* same error to every later Read, so a loop that reads again never ends).
C31_NoTaskLeaked == ctl.last \in {"EOF", "ErrClosed"} => ctl.pc = "returned"

\* C32: every frame with an offer that a negotiation has received has led to
\* an answer frame or an error frame on its substream: while the negotiation
\* waits for the next frame on a substream that works (so no error has ended
\* it), the answers written are as many as the offers received.
C32_OfferAnswered ==
    \A s \in StreamIds :
        (streams[s].pc = "decode" /\ Usable(s)) =>
            streams[s].noffer = Cardinality(Answers(s))

\* C33: at most one broker websocket of the listener is open at any time, and
\* the open one is the stored one (l.ws): every dial closes the stored
\* websocket before it opens a new one.
C33_OneWebsocket ==
    /\ Cardinality({k \in 1..Len(conns) : conns[k].open}) <= 1
    /\ \A k \in 1..Len(conns) : conns[k].open => k = ws

\* a redial has replaced an earlier websocket: the old one is closed and the
\* new one is open
C33_Witness ==
    /\ Len(conns) >= 2
    /\ redials >= 1
    /\ ~conns[1].open
    /\ conns[ws].open

\* C34: the loss of the broker transport and the redials close no peer that
\* has reached connected. The steps that lose, close or replace the broker
\* connection change no peer; no step closes a peer whose state is connected;
\* a peer that has reached connected is only closed by the error path of a
\* negotiation whose substream the peer's own callback had closed before,
\* never by one the transport ended; and a negotiation that has ended after
\* its session was lost has closed its peer unless the peer reached connected.
C34_Step ==
    /\ (conns' # conns \/ ws' # ws \/ supPc' # supPc) => peers' = peers
    /\ \A p \in PeerIds :
          /\ peers[p].state = "connected" => peers'[p].state = peers[p].state
                                            \/ peers'[p].state = "disconnected"
          /\ (peers[p].reached /\ peers[p].state # "closed" /\ peers'[p].state = "closed")
                => ~streams[peers[p].stream].connOpen

C34_LostNegotiationClosed ==
    \A s \in StreamIds :
        (streams[s].pc = "done" /\ ~SessionAlive(streams[s].sess) /\ streams[s].errPeer # 0) =>
            (~peers[streams[s].errPeer].reached => peers[streams[s].errPeer].state = "closed")

C34_ReconnectSparesConnected == []C34_LostNegotiationClosed /\ [][C34_Step]_vars

\* after the loss of the first session and a redial that opened a second one,
\* a peer negotiated on the first session is connected, and another
\* negotiation of the first session was ended by the loss with its peer closed
C34_Witness ==
    /\ Len(conns) >= 2
    /\ SessionAlive(2)
    /\ ~SessionAlive(1)
    /\ \E p \in PeerIds :
          /\ streams[peers[p].stream].sess = 1
          /\ peers[p].state = "connected"
    /\ \E s \in StreamIds :
          /\ streams[s].sess = 1
          /\ streams[s].pc = "done"
          /\ streams[s].errWrite = "failed"
          /\ streams[s].errPeer # 0
          /\ streams[s].errState \in {"new", "connecting"}
          /\ peers[streams[s].errPeer].closedBy = "closeError"

\* C35: every accept loop delivers the error that ends it: whenever an accept
\* task is sending on its unbuffered error channel, the supervisor is
\* receiving on that very channel, and the send is eventually taken.
C35_SupervisorReceives ==
    \A k \in 1..Len(conns) :
        conns[k].accept = "send" => supPc = "recv" /\ supCh = k

C35_ErrorDelivered ==
    /\ []C35_SupervisorReceives
    /\ \A k \in 1..MaxConns :
          (k <= Len(conns) /\ conns[k].accept = "send")
              ~> (k <= Len(conns) /\ conns[k].accept = "done")

\* the accept loop of a session opened by a redial has delivered its error,
\* after Close() was called and the context was cancelled
C35_Witness ==
    /\ Len(conns) >= 2
    /\ conns[Len(conns)].accept = "done"
    /\ conns[1].accept = "done"
    /\ userPc = "returned"
    /\ ctx # "active"

\* C36: Close() never deadlocks: the goroutine that holds l.connClosersMut is
\* never waiting for anything (it is in the loop of Close or at the append of
\* negotiate), and every call of Close() returns, whatever callbacks run and
\* whatever negotiation registers a peer at the same time.
C36_HolderRuns ==
    \A t \in Closers \cup Negs :
        closer.mu = t => closer.pc[t] \in {"loop", "append"}

C36_CloseReturns ==
    /\ []C36_HolderRuns
    /\ \A t \in Closers : (closer.pc[t] = "lock") ~> (closer.pc[t] = "returned")

\* both calls of Close() have returned, the registered peers were closed by
\* them and their callbacks have run
C36_Witness ==
    /\ \A t \in Closers : closer.pc[t] = "returned"
    /\ Len(closer.list) = 2
    /\ \A p \in {1, 2} : closer.rtc[p] = "closed" /\ closer.cb[p] = "done"

\* C37: the executable is replaced only by the rename of a completely written
\* <executable>.new, and it is left as it was when a step before the rename
\* fails or the versions are equal: a run that returned an error or found the
\* binary up to date has not changed the executable, and neither has a run
\* whose archive could not be read to the end (its extraction failed).
C37_Step ==
    upd'.exe # upd.exe =>
        /\ upd.pc = "rename"
        /\ upd.newFile = upd.binary
        /\ upd'.exe = upd.newFile

C37_FailureKeepsExecutable ==
    /\ upd.ret = "error" => upd.exe = "old"
    /\ upd.err = "up to date" => upd.exe = "old"
    /\ (upd.archive # NoArchive /\ ~upd.archive.intact) => upd.exe = "old"

\* C38: when the downloaded zip or tar.gz archive holds no entry with the name
\* of the coder binary, the update fails with an extraction error and the
\* executable is not replaced.
C38_MissingBinaryFails ==
    (/\ upd.archive.type \in {"zip", "gzip"}
     /\ upd.archive.opens
     /\ updatedBinaryName(upd.os) \notin upd.archive.names
     /\ upd.pc \notin {"extract"}) =>
        /\ upd.pc = "returned"
        /\ upd.ret = "error"
        /\ upd.err = "extract"
        /\ upd.exe = "old"

\* C39: for every content of the file without a Coder token, removing the
\* section from what config-ssh wrote (the content followed by the output of
\* makeNewConfigs) gives back exactly the content and reports a modification,
\* and a second run of config-ssh leaves the same file as the first.
TokenFree(f) == \A i \in DOMAIN f : f[i] \notin {"S", "E"}

C39_RoundTrip ==
    (ssh.runs >= 1 /\ TokenFree(ssh.orig)) =>
        /\ ssh.ret = "nil"
        /\ ssh.first = ssh.orig \o makeNewConfigs(ssh.hosts)
        /\ removeOldConfig(ssh.first) = [panic |-> FALSE, config |-> ssh.orig, ok |-> TRUE]
        /\ ssh.file = ssh.first

\* config-ssh has run twice on a file that had some text and no token
C39_Witness ==
    /\ ssh.runs = 2
    /\ TokenFree(ssh.orig)
    /\ Len(ssh.orig) > 0
    /\ ssh.hosts # << >>
    /\ ssh.file = ssh.orig \o makeNewConfigs(ssh.hosts)
====
